---- MODULE Spec2Model ----
(***************************************************************************)
(* Model of the generation core of the study-buddy backend                 *)
(* (apps/backend/app/services): provider selection, the generate ->        *)
(* extract -> validate retry loop of quizzes and flashcards, the mind-map  *)
(* tree sanitizer with its single refinement pass, theory grading, the     *)
(* Gemini client, and of the upload processing and deletion of a file      *)
(* (apps/backend/app/api/routes/files.py).                                 *)
(*                                                                         *)
(* Conventions                                                             *)
(*  - In a raw mind-map node a value that is None, "" or falsy is the      *)
(*    empty string ""; " " is a non-empty string of whitespace only.       *)
(*  - A setting of cfg is TRUE when its value is truthy (set, non-empty).  *)
(*    cfg has the fields core/config.py declares.  Settings declares no    *)
(*    gemini_api_key, gemini_model or ollama_mindmap_model: a getattr with *)
(*    a default yields the default, a plain read of settings.gemini_...    *)
(*    raises AttributeError.                                               *)
(*  - A parsed JSON value is a record with a field "type".                 *)
(*  - A raw mind-map node (what json.loads hands to _sanitize_tree) is a   *)
(*    record [dict, hasId, id, label, kidsList, children]; dict = FALSE is *)
(*    a node that is not a JSON object, hasId = FALSE a node without the   *)
(*    key "id", kidsList = FALSE a "children" field that is not a list.    *)
(*  - A sanitized node is a record [id, label, children].                  *)
(***************************************************************************)
EXTENDS Integers, Sequences, FiniteSets, TLC

VARIABLES
    cfg,        \* app.core.config.settings (read-only after start)
    req,        \* the arguments of the call under way
    pc,         \* where the call is: "start", "calling", "refining", "done"
    provider,   \* the local variable provider of the call
    consulted,  \* whether _configured_provider() was evaluated
    calls,      \* the adapter invocations made so far, in order
    prompt,     \* the local variable current_prompt / refine_prompt
    last_raw,   \* the local variable last_raw
    work,       \* the working value between suspension points
    result,     \* what the call returned or raised
    heard,      \* the provider responses the call received, in order
    peer,       \* the locals of a second call suspended at an await, if any
    db          \* the file's documents in MongoDB and GridFS (file routes only)

vars ==
    <<cfg, req, pc, provider, consulted, calls, prompt, last_raw, work, result, heard, peer, db>>

\* Python's None where it has to be told from the empty string.
None == "<None>"

(***************************************************************************)
(* Bounds of the model.                                                    *)
(***************************************************************************)
\* A payload's collection (questions, cards, grades) has at most this many elements.
MaxItems == 3
\* Raw input trees of the sanitizer have at most this many nodes.
MaxTreeNodes == 4
\* The sanitizer is exercised with budgets 1..MaxBudget (depth and nodes).
MaxBudget == 4
\* The longest string literal of a scanned object, in units.
MaxUnits == 2

(***************************************************************************)
(* Strings: str.strip() and truthiness over the vocabulary of the model.   *)
(***************************************************************************)
Strip(s) == IF s = " " THEN "" ELSE s

Min(a, b) == IF a < b THEN a ELSE b

Truthy(s) == s # ""

(***************************************************************************)
(* Mind-map trees: mindmap_generator._sanitize_tree                        *)
(***************************************************************************)
RawNode(hasId, id, label, kids) ==
    [dict |-> TRUE, hasId |-> hasId, id |-> id, label |-> label,
     kidsList |-> TRUE, children |-> kids]

\* A node that is not a JSON object (a string, a number, null).
NonDictNode ==
    [dict |-> FALSE, hasId |-> FALSE, id |-> "", label |-> "",
     kidsList |-> FALSE, children |-> <<>>]

\* A JSON object whose "children" is not a list.
NonListKidsNode ==
    [dict |-> TRUE, hasId |-> TRUE, id |-> "a", label |-> "A",
     kidsList |-> FALSE, children |-> <<>>]

Node(id, label, kids) == [id |-> id, label |-> label, children |-> kids]

\* f"n{next_id}"
SynthId(next_id) == "n" \o ToString(next_id)

\* node_id = str(node.get("id") or f"n{next_id}")
NodeId(node, next_id) ==
    IF node.hasId /\ Truthy(node.id) THEN node.id ELSE SynthId(next_id)

\* if "id" not in node or not str(node.get("id") or "").strip(): next_id += 1
NextIdAfter(node, next_id) ==
    IF ~node.hasId \/ Strip(node.id) = "" THEN next_id + 1 ELSE next_id

\* label = str(node.get("label") or "").strip(); if not label: "Untitled"
NodeLabel(node) ==
    IF Strip(node.label) = "" THEN "Untitled" ELSE Strip(node.label)

RECURSIVE normalize(_, _)
RECURSIVE normalizeList(_, _)
\* normalize(node) with the closure counter next_id threaded through:
\* returns [node |-> the normalized node, next |-> next_id afterwards].
normalize(node0, next_id) ==
    LET node == IF node0.dict THEN node0
                ELSE [node0 EXCEPT !.hasId = FALSE, !.id = "", !.label = "",
                                   !.kidsList = FALSE, !.children = <<>>]
        node_id == NodeId(node, next_id)
        next1 == NextIdAfter(node, next_id)
        children_list == IF node.kidsList THEN node.children ELSE <<>>
        kids == normalizeList(children_list, next1)
    IN  [node |-> Node(node_id, NodeLabel(node), kids.nodes), next |-> kids.next]

\* [normalize(c) for c in children_list], left to right.
normalizeList(list, next_id) ==
    IF list = <<>> THEN [nodes |-> <<>>, next |-> next_id]
    ELSE LET h == normalize(Head(list), next_id)
             t == normalizeList(Tail(list), h.next)
         IN  [nodes |-> <<h.node>> \o t.nodes, next |-> t.next]

\* The guard of prune_depth: a node at depth >= max_depth loses its children.
AtDepthLimitMut(depth, max_depth) == depth > max_depth

AtDepthLimit(depth, max_depth) == depth >= max_depth

RECURSIVE prune_depth(_, _, _)
prune_depth(node, depth, max_depth) ==
    IF AtDepthLimit(depth, max_depth)
    THEN [node EXCEPT !.children = <<>>]
    ELSE [node EXCEPT !.children =
            [i \in 1..Len(node.children) |->
                prune_depth(node.children[i], depth + 1, max_depth)]]

\* The node of tree reached by following the child indices of path.
RECURSIVE NodeAt(_, _)
NodeAt(tree, path) ==
    IF path = <<>> THEN tree ELSE NodeAt(tree.children[Head(path)], Tail(path))

\* tree with the children of the node at path replaced (cur["children"] = ...).
RECURSIVE SetChildrenAt(_, _, _)
SetChildrenAt(tree, path, kids) ==
    IF path = <<>> THEN [tree EXCEPT !.children = kids]
    ELSE [tree EXCEPT !.children[Head(path)] =
            SetChildrenAt(tree.children[Head(path)], Tail(path), kids)]

\* The while loop of the node-count prune.  queue holds the queued nodes as
\* paths from the root (the code queues references into the same tree).
RECURSIVE prune_nodes(_, _, _, _)
prune_nodes(tree, queue, count0, max_nodes) ==
    IF queue = <<>> THEN tree
    ELSE LET cur == Head(queue)
             count == count0 + 1
         IN  IF count >= max_nodes
             THEN prune_nodes(SetChildrenAt(tree, cur, <<>>), Tail(queue), count, max_nodes)
             ELSE LET children == NodeAt(tree, cur).children
                      remaining == max_nodes - count
                      kept == IF Len(children) > remaining
                              THEN SubSeq(children, 1, remaining)
                              ELSE children
                      tree1 == IF Len(children) > remaining
                               THEN SetChildrenAt(tree, cur, kept)
                               ELSE tree
                  IN  prune_nodes(tree1,
                                  Tail(queue) \o [i \in 1..Len(kept) |-> cur \o <<i>>],
                                  count, max_nodes)

_sanitize_tree(root, max_depth, max_nodes) ==
    LET normalized == [normalize(root, 1).node EXCEPT !.id = "root"]
        pruned == prune_depth(normalized, 1, max_depth)
    IN  prune_nodes(pruned, << <<>> >>, 0, max_nodes)

\* _tree_stats: the breadth-first loop over (node, depth) pairs.
RECURSIVE tree_stats_loop(_, _, _)
tree_stats_loop(queue, max_d, count) ==
    IF queue = <<>> THEN [depth |-> max_d, nodes |-> count]
    ELSE LET node == Head(queue).node
             d == Head(queue).d
         IN  tree_stats_loop(
                Tail(queue) \o [i \in 1..Len(node.children) |->
                                    [node |-> node.children[i], d |-> d + 1]],
                IF d > max_d THEN d ELSE max_d,
                count + 1)

_tree_stats(root) == tree_stats_loop(<<[node |-> root, d |-> 1]>>, 0, 0)

(***************************************************************************)
(* The raw trees the sanitizer is exercised on: every ordered tree with at *)
(* most MaxTreeNodes nodes whose inner nodes carry one of NodeAtoms and    *)
(* whose leaves are one of RawLeaves.                                      *)
(***************************************************************************)
NodeAtoms ==
    {[hasId |-> FALSE, id |-> "", label |-> ""],
     [hasId |-> TRUE, id |-> "a", label |-> "A"]}

\* A JSON object whose id and label are whitespace only.
BlankNode == RawNode(TRUE, " ", " ", <<>>)

RawLeaves ==
    {RawNode(a.hasId, a.id, a.label, <<>>) : a \in NodeAtoms}
        \cup {NonDictNode, NonListKidsNode, BlankNode}

RECURSIVE RawTrees(_)
RECURSIVE RawForests(_)
\* The raw trees with exactly n nodes.
RawTrees(n) ==
    IF n = 1 THEN RawLeaves
    ELSE {RawNode(a.hasId, a.id, a.label, f) : a \in NodeAtoms, f \in RawForests(n - 1)}

\* The sequences of raw trees with m nodes in total.
RawForests(m) ==
    IF m = 0 THEN {<<>>}
    ELSE UNION {{<<t>> \o f : t \in RawTrees(k), f \in RawForests(m - k)} : k \in 1..m}

RawTreeInputs == UNION {RawTrees(n) : n \in 1..MaxTreeNodes}

(***************************************************************************)
(* SpecSanitize: _sanitize_tree as a function of its arguments.            *)
(***************************************************************************)
Idle == [status |-> "none"]

\* No second call is under way.
NoPeer == [pc |-> "absent"]

\* The call does not touch the database.
NoDb == [status |-> "absent"]

\* The call receives the response resp of the provider.
Hears(resp) == heard' = Append(heard, resp)

InitSanitize ==
    /\ cfg = None
    /\ \E t \in RawTreeInputs, d \in 1..MaxBudget, n \in 1..MaxBudget :
            req = [kind |-> "sanitize", root |-> t, max_depth |-> d, max_nodes |-> n]
    /\ pc = "start"
    /\ provider = None
    /\ consulted = FALSE
    /\ calls = <<>>
    /\ prompt = None
    /\ last_raw = None
    /\ work = None
    /\ result = Idle
    /\ heard = <<>>
    /\ peer = NoPeer
    /\ db = NoDb

\* One call of _sanitize_tree(root, max_depth=..., max_nodes=...).
SanitizeCall ==
    /\ pc = "start"
    /\ req.kind = "sanitize"
    /\ result' = [status |-> "ok",
                  root |-> _sanitize_tree(req.root, req.max_depth, req.max_nodes)]
    /\ pc' = "done"
    /\ UNCHANGED <<cfg, req, provider, consulted, calls, prompt, last_raw, work, heard, peer, db>>

NextSanitize == SanitizeCall

SpecSanitize == InitSanitize /\ [][NextSanitize]_vars

(***************************************************************************)
(* Provider selection: _configured_provider of each service module.        *)
(***************************************************************************)
Kinds == {"quiz", "flashcards", "mindmap", "grading", "summary", "chat"}

\* The exception class each service module raises.
TypedError(kind) ==
    CASE kind = "quiz" -> "QuizGeneratorError"
      [] kind = "flashcards" -> "FlashcardGeneratorError"
      [] kind = "mindmap" -> "MindmapGeneratorError"
      [] kind = "grading" -> "TheoryGraderError"
      [] kind = "summary" -> "SummarizerError"
      [] kind = "chat" -> "ChatError"

\* The Ollama model a module uses: getattr(settings, "ollama_<x>_model", None)
\* or settings.ollama_model.
OllamaModelSet(kind, c) ==
    CASE kind = "quiz" -> c.ollama_model
      [] kind = "flashcards" -> c.ollama_flashcards_model \/ c.ollama_model
      [] kind = "mindmap" -> c.ollama_model
      [] kind = "grading" -> c.ollama_grader_model \/ c.ollama_model
      [] kind = "summary" -> c.ollama_summary_model \/ c.ollama_model
      [] kind = "chat" -> c.ollama_model

\* Whether the module's _configured_provider has a branch for Gemini.
KnowsGemini(kind) == kind \in {"mindmap", "summary", "chat"}

\* The outcome of reading an attribute Settings does not declare.
Undeclared == "<AttributeError>"

\* A selection that asks for the cloud key first.
ConfiguredProviderMut(kind, c) ==
    IF c.openai_api_key THEN "openai"
    ELSE IF c.ollama_url /\ OllamaModelSet(kind, c) THEN "ollama"
    ELSE IF KnowsGemini(kind) THEN Undeclared
    ELSE None

\* _configured_provider(): the provider, None, or Undeclared when the
\* function gets as far as `if settings.gemini_api_key:`.
ConfiguredProvider(kind, c) ==
    IF c.ollama_url /\ OllamaModelSet(kind, c) THEN "ollama"
    ELSE IF c.openai_api_key THEN "openai"
    ELSE IF KnowsGemini(kind) THEN Undeclared
    ELSE None

\* (provider or "").strip().lower() over the vocabulary of the model.
StripLower(p) ==
    IF p = None THEN ""
    ELSE IF p = " Gemini " THEN "gemini"
    ELSE IF p = " " THEN ""
    ELSE p

\* The provider a call settles on before looking at the configuration:
\* mindmap and summary normalise the argument, chat takes it as it is.
\* None means that _configured_provider() is asked.
OverrideMut(kind, p) == None

Override(kind, p) ==
    CASE kind \in {"mindmap", "summary"} ->
            IF StripLower(p) = "" THEN None ELSE StripLower(p)
      [] kind = "chat" -> p
      [] OTHER -> None

(***************************************************************************)
(* Source text: _prepare_source / _prepare_prompt.  A text is a sequence   *)
(* of characters; " " is any whitespace character.                         *)
(***************************************************************************)
QuizMaxSourceChars == 20000
DefaultMaxSourceChars == 8000
MaxSummaryChars == 15000

MaxSourceChars(kind) ==
    CASE kind = "quiz" -> QuizMaxSourceChars
      [] kind = "summary" -> MaxSummaryChars
      [] OTHER -> DefaultMaxSourceChars

\* " ".join(text.split()): acc is the text joined so far, gap whether
\* whitespace was skipped since the last character of acc.
RECURSIVE SplitJoin(_, _, _)
SplitJoin(text, acc, gap) ==
    IF text = <<>> THEN acc
    ELSE IF Head(text) = " " THEN SplitJoin(Tail(text), acc, TRUE)
    ELSE SplitJoin(Tail(text),
                   (IF gap /\ acc # <<>> THEN acc \o <<" ">> ELSE acc) \o <<Head(text)>>,
                   FALSE)

\* A budgeter that truncates without collapsing whitespace first.
PrepareSourceMut(text, limit) ==
    IF Len(text) > limit THEN SubSeq(text, 1, limit) ELSE text

PrepareSource(text, limit) ==
    LET normalized == SplitJoin(text, <<>>, FALSE)
    IN  IF Len(normalized) > limit THEN SubSeq(normalized, 1, limit) ELSE normalized

(***************************************************************************)
(* Provider adapters.  A backend response is a record [kind, text]:        *)
(*   "text"          a 200 answer carrying the generated text (maybe empty)*)
(*   "http_error"    an HTTP error status (httpx.HTTPStatusError)          *)
(*   "timeout"       httpx.TimeoutException                                *)
(*   "request_error" another httpx.RequestError                            *)
(*   "error_body"    a 200 answer without output: Ollama's "error" field,  *)
(*                   OpenAI without "choices", Gemini without candidates   *)
(* A generated text is a record [form, value]: form "plain" is a JSON      *)
(* document, "fenced" one inside a ``` block with prose around it, "prose" *)
(* a JSON object between sentences of prose, "invalid" text holding no     *)
(* JSON, "empty" the empty text.                                           *)
(***************************************************************************)
\* A missing member of a JSON object, and the value of a text without JSON.
Absent == [type |-> "absent"]

EmptyRaw == [form |-> "empty", value |-> Absent]

InvalidRaw == [form |-> "invalid", value |-> Absent]

Raw(form, value) == [form |-> form, value |-> value]

TextResponse(raw) == [kind |-> "text", text |-> raw]

FailureKinds == {"http_error", "timeout", "request_error", "error_body"}

FailureResponses == {[kind |-> k, text |-> EmptyRaw] : k \in FailureKinds}

\* What an adapter checks before it sends a request: the model and the
\* endpoint of Ollama, the API key of OpenAI.  The Gemini adapters read
\* settings.gemini_api_key / settings.gemini_model, which are undeclared,
\* before any request is sent.
AdapterReady(kind, adapter, c) ==
    CASE adapter = "ollama" -> OllamaModelSet(kind, c) /\ c.ollama_url
      [] adapter = "openai" -> c.openai_api_key
      [] adapter = "gemini" -> FALSE

\* The OpenAI adapters of quiz_generator and summarizer catch only
\* httpx.HTTPStatusError; every other adapter maps the three httpx errors.
CatchesTransport(kind, adapter) ==
    ~(adapter = "openai" /\ kind \in {"quiz", "summary"})

\* Whether the adapter itself raises on an empty text.
RaisesOnEmpty(kind, adapter) ==
    adapter \in {"ollama", "gemini"} /\ kind # "grading"

\* A text that is no JSON and longer than the excerpt of an error message.
LongRaw == [form |-> "long", value |-> Absent]

\* snippet[:800]
ExcerptChars == 800

\* The texts other than LongRaw are this long.
ShortTextChars == 20

\* len(text) of a provider text.
Chars(raw) ==
    CASE raw.form = "empty" -> 0
      [] raw.form = "long" -> ExcerptChars + 1
      [] OTHER -> ShortTextChars

\* The part of an error message that quotes a provider text: the text it is
\* cut from and the number of characters quoted.
NoExcerpt == [of |-> Absent, chars |-> 0]

\* snippet = (last_raw or "").strip(); snippet[:800]
Excerpt(raw) == [of |-> raw, chars |-> Min(Chars(raw), ExcerptChars)]

SurfacesExcerptMut(app_env) == TRUE

\* if settings.app_env == "dev":
SurfacesExcerpt(app_env) == app_env = "dev"

Raised(class, msg) ==
    [status |-> "error", error |-> class, msg |-> msg, raw_excerpt |-> NoExcerpt]

\* The outcome of one adapter call that sent its request and got resp:
\* [status |-> "text", text] or the exception that leaves the adapter.
AdapterReply(kind, adapter, resp) ==
    CASE resp.kind = "http_error" -> Raised(TypedError(kind), "request failed")
      [] resp.kind = "timeout" ->
            IF CatchesTransport(kind, adapter)
            THEN Raised(TypedError(kind), "request timed out")
            ELSE Raised("httpx.TimeoutException", "")
      [] resp.kind = "request_error" ->
            IF CatchesTransport(kind, adapter)
            THEN Raised(TypedError(kind), "request error")
            ELSE Raised("httpx.RequestError", "")
      [] resp.kind = "error_body" -> Raised(TypedError(kind), "response carried no output")
      [] resp.kind = "text" ->
            IF resp.text.form = "empty" /\ RaisesOnEmpty(kind, adapter)
            THEN Raised(TypedError(kind), "response was empty")
            ELSE [status |-> "text", text |-> resp.text]

(***************************************************************************)
(* Parsed JSON values and _extract_json.                                   *)
(***************************************************************************)
JStr == [type |-> "str"]

JList(items) == [type |-> "list", items |-> items]

\* A JSON object with one member of interest, key: val.
JDict(key, val) == [type |-> "dict", key |-> key, val |-> val]

\* obj.get(key)
Get(obj, key) == IF obj.key = key THEN obj.val ELSE Absent

\* _extract_json of each module: [ok |-> TRUE, value] or [ok |-> FALSE].
\* theory_grader parses the fence-stripped text only; the other modules
\* fall back to the first balanced object of the text.
ExtractJson(kind, raw) ==
    CASE raw.form \in {"plain", "fenced"} -> [ok |-> TRUE, value |-> raw.value]
      [] raw.form = "prose" ->
            IF kind = "grading" THEN [ok |-> FALSE, value |-> Absent]
            ELSE [ok |-> TRUE, value |-> raw.value]
      [] OTHER -> [ok |-> FALSE, value |-> Absent]

(***************************************************************************)
(* Provider text as a sequence of characters, and the balanced-brace scan  *)
(* _first_balanced_json_object.  An index is 1-based; start = 0 is None.   *)
(***************************************************************************)
DQ == "\""

BS == "\\"

NoCandidate == [found |-> FALSE, text |-> <<>>]

IsEscapeMut(ch) == FALSE

\* if ch == "\\": inside a string a backslash escapes the next character.
IsEscape(ch) == ch = BS

RECURSIVE scan(_, _, _, _, _, _)
\* The loop for i, ch in enumerate(s) with its locals.
scan(s, i, in_string, escape, depth, start) ==
    IF i > Len(s) THEN NoCandidate
    ELSE LET ch == s[i]
         IN  IF in_string
             THEN IF escape THEN scan(s, i + 1, TRUE, FALSE, depth, start)
                  ELSE IF IsEscape(ch) THEN scan(s, i + 1, TRUE, TRUE, depth, start)
                  ELSE IF ch = DQ THEN scan(s, i + 1, FALSE, escape, depth, start)
                  ELSE scan(s, i + 1, TRUE, escape, depth, start)
             ELSE IF ch = DQ THEN scan(s, i + 1, TRUE, escape, depth, start)
             ELSE IF ch = "{"
             THEN scan(s, i + 1, FALSE, escape, depth + 1,
                       IF depth = 0 THEN i ELSE start)
             ELSE IF ch = "}" /\ depth > 0
             THEN IF depth - 1 = 0 /\ start # 0
                  THEN [found |-> TRUE, text |-> SubSeq(s, start, i)]
                  ELSE scan(s, i + 1, FALSE, escape, depth - 1, start)
             ELSE scan(s, i + 1, FALSE, escape, depth, start)

_first_balanced_json_object(s) == scan(s, 1, FALSE, FALSE, 0, 0)

RECURSIVE Concat(_)
\* "".join(parts)
Concat(parts) ==
    IF parts = <<>> THEN <<>> ELSE Head(parts) \o Concat(Tail(parts))

\* What a JSON string literal may hold between its quotes: a letter, a brace,
\* an escaped quote, an escaped backslash.
StringUnits == {<<"a">>, <<"{">>, <<"}">>, <<BS, DQ>>, <<BS, BS>>}

\* The string literals of at most MaxUnits units.
StringLiterals ==
    {<<DQ>> \o Concat(us) \o <<DQ>> :
        us \in UNION {[1..n -> StringUnits] : n \in 0..MaxUnits}}

ShortLiterals == {<<DQ>> \o u \o <<DQ>> : u \in StringUnits}

\* An object written out: its members between braces.
ObjectText(members) == <<"{">> \o Concat(members) \o <<"}">>

\* Objects holding one string, or a string and a nested object in either
\* order.
ObjectTexts ==
    LET inner == {ObjectText(<<l>>) : l \in ShortLiterals}
    IN  {ObjectText(<<l>>) : l \in StringLiterals}
        \cup {ObjectText(<<l, o>>) : l \in StringLiterals, o \in inner}
        \cup {ObjectText(<<o, l>>) : l \in ShortLiterals, o \in inner}

\* Prose before the object (no quote and no opening brace) and any text
\* after it.
ProseBefore == {<<>>, <<"a", " ">>, <<"}">>, <<BS, " ">>}

TextAfter == {<<>>, <<" ", "a">>, <<"}">>, <<"{", DQ>>}

InitScan ==
    /\ cfg = None
    /\ \E p \in ProseBefore, o \in ObjectTexts, a \in TextAfter :
            req = [kind |-> "scan", before |-> p, object |-> o, after |-> a]
    /\ pc = "start"
    /\ provider = None
    /\ consulted = FALSE
    /\ calls = <<>>
    /\ prompt = None
    /\ last_raw = None
    /\ work = None
    /\ result = Idle
    /\ heard = <<>>
    /\ peer = NoPeer
    /\ db = NoDb

\* One call of _first_balanced_json_object(s).
ScanCall ==
    /\ pc = "start"
    /\ req.kind = "scan"
    /\ result' = [status |-> "ok",
                  candidate |-> _first_balanced_json_object(
                                    req.before \o req.object \o req.after)]
    /\ pc' = "done"
    /\ UNCHANGED <<cfg, req, provider, consulted, calls, prompt, last_raw, work, heard, peer, db>>

NextScan == ScanCall

(***************************************************************************)
(* _extract_json on provider text, character by character.  A text is a    *)
(* sequence of characters; the fence marker of three backquotes, the       *)
(* language tag "json", and the curly quotation marks U+201C, U+201D,      *)
(* U+2018, U+2019 are one element each, as is the apostrophe.  Whitespace   *)
(* is " ".                                                                 *)
(***************************************************************************)
Fence == "<fence>"

LDQ == "<U+201C>"

RDQ == "<U+201D>"

LSQ == "<U+2018>"

RSQ == "<U+2019>"

WS == {" "}

\* s[i], or "" past the end of s.
At(s, i) == IF i \in 1..Len(s) THEN s[i] ELSE ""

RECURSIVE SkipWs(_, _)
\* The first index from i on that holds no whitespace (\s*).
SkipWs(s, i) == IF At(s, i) \in WS THEN SkipWs(s, i + 1) ELSE i

RECURSIVE LStrip(_)
LStrip(s) == IF s # <<>> /\ Head(s) \in WS THEN LStrip(Tail(s)) ELSE s

RECURSIVE RStrip(_)
RStrip(s) ==
    IF s # <<>> /\ s[Len(s)] \in WS THEN RStrip(SubSeq(s, 1, Len(s) - 1)) ELSE s

\* s.strip()
StripText(s) == RStrip(LStrip(s))

RECURSIVE DropFences(_)
\* re.sub(r"```(?:json)?", "", s) followed by s.replace("```", "")
DropFences(s) ==
    IF s = <<>> THEN <<>>
    ELSE IF Head(s) = Fence
    THEN IF At(s, 2) = "json" THEN DropFences(Tail(Tail(s)))
         ELSE DropFences(Tail(s))
    ELSE <<Head(s)>> \o DropFences(Tail(s))

\* _strip_code_fences of each module: the trimmed body of the first fenced
\* block when there is one; otherwise quiz, flashcards and mindmap delete
\* stray fence markers and theory_grader returns the trimmed text.
_strip_code_fences(module, s0) ==
    LET s == StripText(s0)
        fences == {i \in 1..Len(s) : s[i] = Fence}
        first == CHOOSE i \in fences : \A j \in fences : i <= j
        rest == fences \ {first}
        second == CHOOSE i \in rest : \A j \in rest : i <= j
        body == SubSeq(s, first + 1, second - 1)
    IN  IF Cardinality(fences) >= 2
        THEN StripText(IF At(body, 1) = "json" THEN Tail(body) ELSE body)
        ELSE IF module = "grading" THEN s
        ELSE StripText(DropFences(s))

\* s.replace of the four curly quotation marks.
Straight(ch) ==
    CASE ch \in {LDQ, RDQ} -> DQ
      [] ch \in {LSQ, RSQ} -> "<apostrophe>"
      [] OTHER -> ch

RECURSIVE DropTrailingCommas(_, _)
\* re.sub(r",\s*([}\]])", r"\1", s)
DropTrailingCommas(s, i) ==
    IF i > Len(s) THEN <<>>
    ELSE LET j == SkipWs(s, i + 1)
         IN  IF s[i] = "," /\ At(s, j) \in {"}", "]"}
             THEN <<s[j]>> \o DropTrailingCommas(s, j + 1)
             ELSE <<s[i]>> \o DropTrailingCommas(s, i + 1)

_repair_common_json_issues(s) ==
    DropTrailingCommas([i \in 1..Len(s) |-> Straight(s[i])], 1)

(***************************************************************************)
(* json.loads on the JSON subset of objects, arrays, strings and the       *)
(* number 1.  A parser returns the index after what it parsed, 0 when the  *)
(* text is not JSON there.                                                 *)
(***************************************************************************)
RECURSIVE StringBody(_, _)
\* The characters of a string literal from index i up to its closing quote.
StringBody(s, i) ==
    CASE At(s, i) = "" -> 0
      [] At(s, i) = DQ -> i + 1
      [] At(s, i) = BS ->
            IF At(s, i + 1) \in {DQ, BS} THEN StringBody(s, i + 2) ELSE 0
      [] OTHER -> StringBody(s, i + 1)

RECURSIVE ParseValue(_, _), ParseMembers(_, _), ParseElements(_, _)

ParseValue(s, i) ==
    LET j == SkipWs(s, i)
        ch == At(s, j)
    IN  CASE ch = "{" ->
                IF At(s, SkipWs(s, j + 1)) = "}" THEN SkipWs(s, j + 1) + 1
                ELSE ParseMembers(s, j + 1)
          [] ch = "[" ->
                IF At(s, SkipWs(s, j + 1)) = "]" THEN SkipWs(s, j + 1) + 1
                ELSE ParseElements(s, j + 1)
          [] ch = DQ -> StringBody(s, j + 1)
          [] ch = "1" -> j + 1
          [] OTHER -> 0

\* "key": value, ... }
ParseMembers(s, i) ==
    LET j == SkipWs(s, i)
        k == IF At(s, j) = DQ THEN StringBody(s, j + 1) ELSE 0
        c == SkipWs(s, k)
        v == IF k # 0 /\ At(s, c) = ":" THEN ParseValue(s, c + 1) ELSE 0
        e == SkipWs(s, v)
    IN  IF v = 0 THEN 0
        ELSE IF At(s, e) = "," THEN ParseMembers(s, e + 1)
        ELSE IF At(s, e) = "}" THEN e + 1
        ELSE 0

\* value, ... ]
ParseElements(s, i) ==
    LET v == ParseValue(s, i)
        e == SkipWs(s, v)
    IN  IF v = 0 THEN 0
        ELSE IF At(s, e) = "," THEN ParseElements(s, e + 1)
        ELSE IF At(s, e) = "]" THEN e + 1
        ELSE 0

RECURSIVE Canon(_, _, _)
\* The parsed value of a JSON text, written without insignificant whitespace.
Canon(s, in_string, escape) ==
    IF s = <<>> THEN <<>>
    ELSE LET ch == Head(s)
         IN  IF in_string
             THEN <<ch>> \o Canon(Tail(s), escape \/ ch # DQ, ~escape /\ ch = BS)
             ELSE IF ch \in WS THEN Canon(Tail(s), FALSE, FALSE)
             ELSE <<ch>> \o Canon(Tail(s), ch = DQ, FALSE)

NotJson == [ok |-> FALSE, value |-> <<>>]

\* json.loads(s): the parsed value, or a ValueError.
JsonLoads(s) ==
    LET e == ParseValue(s, 1)
    IN  IF e # 0 /\ SkipWs(s, e) = Len(s) + 1
        THEN [ok |-> TRUE, value |-> Canon(s, FALSE, FALSE)]
        ELSE NotJson

\* Only quiz_generator passes the text through _repair_common_json_issues.
Repaired(module, s) ==
    IF module = "quiz" THEN _repair_common_json_issues(s) ELSE s

\* _extract_json of each module.  theory_grader has no balanced-object
\* fallback.
_extract_json(module, text) ==
    LET raw == Repaired(module, _strip_code_fences(module, text))
        fast == JsonLoads(raw)
        candidate == _first_balanced_json_object(raw)
    IN  IF fast.ok THEN fast
        ELSE IF module # "grading" /\ candidate.found
        THEN JsonLoads(Repaired(module, candidate.text))
        ELSE NotJson

\* Valid payloads, as the provider would write them without a flaw.
PayloadTexts ==
    {<<"{", DQ, "a", DQ, ":", DQ, "a", DQ, "}">>,
     <<"{", DQ, "a", DQ, ":", "[", "1", ",", DQ, "a", DQ, "]", "}">>,
     <<"{", DQ, "a", DQ, ":", "{", DQ, "a", DQ, ":", "1", "}", "}">>,
     <<"{", DQ, "a", DQ, ":", DQ, LDQ, "a", RDQ, DQ, "}">>,
     <<"{", DQ, "a", DQ, ":", DQ, "a", RSQ, "a", DQ, "}">>,
     <<"{", DQ, "a", DQ, ":", DQ, "a", ",", " ", "]", DQ, "}">>}

RECURSIVE Curly(_, _)
\* The text with curly quotation marks as its string delimiters.
Curly(s, open) ==
    IF s = <<>> THEN <<>>
    ELSE IF Head(s) = DQ
    THEN <<IF open THEN RDQ ELSE LDQ>> \o Curly(Tail(s), ~open)
    ELSE <<Head(s)>> \o Curly(Tail(s), open)

RECURSIVE CommaBeforeClosers(_, _)
\* The text with a comma and gap put before every closing brace and bracket.
CommaBeforeClosers(s, gap) ==
    IF s = <<>> THEN <<>>
    ELSE IF Head(s) \in {"}", "]"}
    THEN <<",">> \o gap \o <<Head(s)>> \o CommaBeforeClosers(Tail(s), gap)
    ELSE <<Head(s)>> \o CommaBeforeClosers(Tail(s), gap)

Flaws == {"none", "curly", "comma", "comma_gap", "curly_comma"}

Flawed(s, flaw) ==
    CASE flaw = "none" -> s
      [] flaw = "curly" -> Curly(s, FALSE)
      [] flaw = "comma" -> CommaBeforeClosers(s, <<>>)
      [] flaw = "comma_gap" -> CommaBeforeClosers(s, <<" ">>)
      [] flaw = "curly_comma" -> Curly(CommaBeforeClosers(s, <<>>), FALSE)

Wrappings ==
    {"plain", "fenced", "tagged", "prose", "fenced_prose",
     "quote_prose", "brace_prose", "fenced_quote_prose", "prose_noise_after"}

Wrapped(s, wrapping) ==
    CASE wrapping = "plain" -> <<" ">> \o s \o <<" ">>
      [] wrapping = "fenced" -> <<Fence, " ">> \o s \o <<" ", Fence>>
      [] wrapping = "tagged" -> <<Fence, "json", " ">> \o s \o <<" ", Fence>>
      [] wrapping = "prose" -> <<"a", " ">> \o s \o <<" ", "a">>
      [] wrapping = "fenced_prose" ->
            <<"a", " ", Fence, " ">> \o s \o <<" ", Fence, " ", "a">>
      [] wrapping = "quote_prose" -> <<"a", DQ, " ">> \o s \o <<" ", "a">>
      [] wrapping = "brace_prose" -> <<"{", "a", "}", " ">> \o s \o <<" ", "a">>
      [] wrapping = "fenced_quote_prose" ->
            <<"a", DQ, " ", Fence, " ">> \o s \o <<" ", Fence, " ", "{", "a">>
      [] wrapping = "prose_noise_after" -> <<"a", " ">> \o s \o <<" ", "{", DQ, "a">>

ExtractModules == {"quiz", "flashcards", "mindmap", "grading"}

InitExtract ==
    /\ cfg = None
    /\ \E m \in ExtractModules, p \in PayloadTexts, f \in Flaws, w \in Wrappings :
            req = [kind |-> "extract", module |-> m, payload |-> p,
                   flaw |-> f, wrapping |-> w,
                   text |-> Wrapped(Flawed(p, f), w)]
    /\ pc = "start"
    /\ provider = None
    /\ consulted = FALSE
    /\ calls = <<>>
    /\ prompt = None
    /\ last_raw = None
    /\ work = None
    /\ result = Idle
    /\ heard = <<>>
    /\ peer = NoPeer
    /\ db = NoDb

\* One call of _extract_json(text): it returns the parsed value or raises
\* the module's error.
ExtractCall ==
    /\ pc = "start"
    /\ req.kind = "extract"
    /\ LET out == _extract_json(req.module, req.text)
       IN  result' = IF out.ok
                     THEN [status |-> "ok", value |-> out.value]
                     ELSE Raised(TypedError(req.module), "did not return valid JSON")
    /\ pc' = "done"
    /\ UNCHANGED <<cfg, req, provider, consulted, calls, prompt, last_raw, work, heard, peer, db>>

NextExtract == ExtractCall

(***************************************************************************)
(* Configurations and request texts the calls are exercised with.  A       *)
(* setting a module never reads stays unset in that module's calls.        *)
(***************************************************************************)
AllCfgs ==
    [ollama_url : BOOLEAN, ollama_model : BOOLEAN,
     ollama_flashcards_model : BOOLEAN,
     ollama_grader_model : BOOLEAN, ollama_summary_model : BOOLEAN,
     openai_api_key : BOOLEAN,
     app_env : {"dev", "prod"}]

Cfgs(kind) ==
    {c \in AllCfgs :
        /\ c.ollama_flashcards_model => kind = "flashcards"
        /\ c.ollama_grader_model => kind = "grading"
        /\ c.ollama_summary_model => kind = "summary"
        /\ c.app_env = "dev" => kind \in {"quiz", "flashcards"}}

Texts == {<<" ">>, <<"a", " ", " ", "b">>}

\* Every sequence over S of length 0..MaxItems.
ItemLists(S) == UNION {[1..n -> S] : n \in 0..MaxItems}

InitCall(kind, requests) ==
    /\ cfg \in Cfgs(kind)
    /\ req \in requests
    /\ pc = "start"
    /\ provider = None
    /\ consulted = FALSE
    /\ calls = <<>>
    /\ prompt = None
    /\ last_raw = None
    /\ work = None
    /\ result = Idle
    /\ heard = <<>>
    /\ peer = NoPeer
    /\ db = NoDb

\* The call ends: it returns or raises res.
Finish(res) ==
    /\ pc' = "done"
    /\ result' = res

\* The exception of reading settings.gemini_api_key or settings.gemini_model.
AttributeError == Raised("AttributeError", "Settings object has no attribute")

\* An adapter is called with prompt pr.  It raises before sending anything
\* when its settings are missing; otherwise the call waits at nextpc.
Invoke(adapter, pr, nextpc) ==
    LET ready == AdapterReady(req.kind, adapter, cfg)
    IN  /\ calls' = Append(calls, [adapter |-> adapter, prompt |-> pr, sent |-> ready])
        /\ prompt' = pr
        /\ IF ready
           THEN pc' = nextpc /\ result' = result
           ELSE IF adapter = "gemini"
           THEN Finish(AttributeError)
           ELSE Finish(Raised(TypedError(req.kind), "adapter is not configured"))

LastAdapter == calls[Len(calls)].adapter

\* The range checks of the parameters: not (v < lo or v > hi).
InRange(v, lo, hi) == ~(v < lo \/ v > hi)

_build_prompt(kind, source, count) ==
    [variant |-> "base", kind |-> kind, count |-> count, source |-> source]

(***************************************************************************)
(* quiz_generator.generate_quiz_with_provider                              *)
(***************************************************************************)
QuizMinQuestions == 1
QuizMaxQuestions == 50
\* A loop that tries once more than the code does.
AttemptsMut == 2 + 1

\* attempts = 2
Attempts == 2

GoodQ == [type |-> "dict", options |-> <<"A", "B", "C", "D">>, answer |-> "A"]

BadQ == [type |-> "dict", options |-> <<"A", "B", "C">>, answer |-> "E"]

\* _validate_shape of the quiz: "" when obj passes, else the message raised.
ValidateQuizMut(obj, n) ==
    IF obj.type # "dict" THEN "Quiz JSON must be an object"
    ELSE LET qs == Get(obj, "questions")
         IN  IF qs.type # "list" \/ qs.items = <<>>
             THEN "Quiz JSON must include a non-empty questions array"
             ELSE ""

ValidateQuiz(obj, n) ==
    IF obj.type # "dict" THEN "Quiz JSON must be an object"
    ELSE LET qs == Get(obj, "questions")
         IN  IF qs.type # "list" \/ qs.items = <<>>
             THEN "Quiz JSON must include a non-empty questions array"
             ELSE IF Len(qs.items) # n THEN "Quiz must include exactly n questions"
             ELSE ""

_retry_prompt(previous_prompt, previous_output, num_questions) ==
    [variant |-> "retry", count |-> num_questions,
     original |-> previous_prompt, invalid |-> previous_output]

\* if provider == "ollama": _generate_with_ollama else: _generate_with_openai
QuizAdapter(p) == IF p = "ollama" THEN "ollama" ELSE "openai"

QuizRequests ==
    {[kind |-> "quiz", text |-> t, num |-> n] :
        t \in Texts,
        n \in (0..MaxItems) \cup {QuizMaxQuestions, QuizMaxQuestions + 1}}

QuizTexts ==
    {Raw("plain", v) :
        v \in {JStr, JList(<<GoodQ>>), JDict("title", JStr), JDict("questions", JStr)}
              \cup {JDict("questions", JList(l)) : l \in ItemLists({GoodQ, BadQ})}}
    \cup {Raw("fenced", JDict("questions", JList(<<GoodQ>>))),
          Raw("prose", JDict("questions", JList(<<GoodQ, GoodQ>>))),
          InvalidRaw, LongRaw, EmptyRaw}

QuizResponses == FailureResponses \cup {TextResponse(r) : r \in QuizTexts}

\* From the entry to the first provider call.
QuizStart ==
    /\ pc = "start"
    /\ req.kind = "quiz"
    /\ consulted' = TRUE
    /\ provider' = ConfiguredProvider("quiz", cfg)
    /\ LET source == PrepareSource(req.text, MaxSourceChars("quiz"))
           base == _build_prompt("quiz", source, req.num)
       IN  IF provider' = None
           THEN /\ Finish(Raised("QuizGeneratorError", "No quiz provider configured"))
                /\ UNCHANGED <<calls, prompt, work>>
           ELSE IF ~InRange(req.num, QuizMinQuestions, QuizMaxQuestions)
           THEN /\ Finish(Raised("QuizGeneratorError", "num_questions must be between 1 and 50"))
                /\ UNCHANGED <<calls, prompt, work>>
           ELSE IF source = <<>>
           THEN /\ Finish(Raised("QuizGeneratorError", "No extracted text available"))
                /\ UNCHANGED <<calls, prompt, work>>
           ELSE /\ work' = [attempt_index |-> 0, base |-> base]
                /\ Invoke(QuizAdapter(provider'), base, "calling")
    /\ UNCHANGED <<cfg, req, last_raw, heard, peer, db>>

\* The provider answers attempt work.attempt_index: extraction, validation,
\* and either the return, the retry call or the final error.
QuizReply ==
    /\ pc = "calling"
    /\ req.kind = "quiz"
    /\ \E resp \in QuizResponses : Hears(resp) /\
        LET out == AdapterReply("quiz", LastAdapter, resp)
        IN  IF out.status = "error"
            THEN /\ Finish(out)
                 /\ UNCHANGED <<calls, prompt, work, last_raw>>
            ELSE LET ex == ExtractJson("quiz", out.text)
                     verdict == IF ex.ok THEN ValidateQuiz(ex.value, req.num)
                                ELSE "Model did not return valid JSON"
                 IN  /\ last_raw' = out.text
                     /\ IF verdict = ""
                        THEN /\ Finish([status |-> "ok", payload |-> ex.value,
                                        provider |-> provider])
                             /\ UNCHANGED <<calls, prompt, work>>
                        ELSE IF work.attempt_index + 1 < Attempts
                        THEN /\ work' = [work EXCEPT !.attempt_index = @ + 1]
                             /\ Invoke(QuizAdapter(provider),
                                       _retry_prompt(work.base, out.text, req.num),
                                       "calling")
                        ELSE /\ Finish([Raised("QuizGeneratorError",
                                               "Model did not return valid JSON")
                                        EXCEPT !.raw_excerpt =
                                            IF SurfacesExcerpt(cfg.app_env)
                                            THEN Excerpt(out.text) ELSE NoExcerpt])
                             /\ UNCHANGED <<calls, prompt, work>>
    /\ UNCHANGED <<cfg, req, provider, consulted, peer, db>>

InitQuiz == InitCall("quiz", QuizRequests)

NextQuiz == QuizStart \/ QuizReply

(***************************************************************************)
(* flashcard_generator.generate_flashcards_with_provider                   *)
(***************************************************************************)
CardsMin == 1
CardsMax == 100
\* attempts = 2
FlashAttempts == 2

Card(hasId, id, front, back) ==
    [type |-> "dict", hasId |-> hasId, id |-> id, front |-> front, back |-> back]

GoodCard == Card(TRUE, 7, "F", "B")

NoIdCard == Card(FALSE, 0, "F", "B")

BlankBackCard == Card(TRUE, 7, "F", " ")

\* The loop over the cards: the message raised by the first bad card, else "".
RECURSIVE CardsVerdict(_, _)
CardsVerdict(cards, idx) ==
    IF idx > Len(cards) THEN ""
    ELSE LET c == cards[idx]
         IN  IF c.type # "dict" THEN "Each card must be an object"
             ELSE IF Strip(c.front) = "" \/ Strip(c.back) = ""
             THEN "Each card must include front and back"
             ELSE CardsVerdict(cards, idx + 1)

\* if "id" not in c: c["id"] = idx + 1   (idx counts from 0 in the code)
WithIds(cards) ==
    [i \in 1..Len(cards) |->
        IF cards[i].hasId THEN cards[i]
        ELSE [cards[i] EXCEPT !.hasId = TRUE, !.id = i]]

\* _validate_shape of the flashcards: [msg, value]; msg = "" when obj passes
\* and value is then obj with the missing ids filled in.
ValidateCards(obj, n) ==
    IF obj.type # "dict"
    THEN [msg |-> "Flashcards JSON must be an object", value |-> obj]
    ELSE LET cards == Get(obj, "cards")
         IN  IF cards.type # "list" \/ cards.items = <<>>
             THEN [msg |-> "Flashcards JSON must include a non-empty cards array", value |-> obj]
             ELSE IF Len(cards.items) # n
             THEN [msg |-> "Flashcards must include exactly n cards", value |-> obj]
             ELSE IF CardsVerdict(cards.items, 1) # ""
             THEN [msg |-> CardsVerdict(cards.items, 1), value |-> obj]
             ELSE [msg |-> "", value |-> JDict("cards", JList(WithIds(cards.items)))]

\* "Return ONLY valid JSON ... No markdown, no extra text.\n\n" + prompt
StrictPrompt(base) == [variant |-> "strict", original |-> base]

FlashRequests ==
    {[kind |-> "flashcards", text |-> t, num |-> n] :
        t \in Texts,
        n \in (0..MaxItems) \cup {CardsMax, CardsMax + 1}}

FlashTexts ==
    {Raw("plain", v) :
        v \in {JStr, JDict("title", JStr), JDict("cards", JStr)}
              \cup {JDict("cards", JList(l)) :
                        l \in ItemLists({GoodCard, NoIdCard, BlankBackCard, JStr})}}
    \cup {Raw("fenced", JDict("cards", JList(<<GoodCard>>))),
          Raw("prose", JDict("cards", JList(<<NoIdCard, GoodCard>>))),
          InvalidRaw, EmptyRaw}

FlashResponses == FailureResponses \cup {TextResponse(r) : r \in FlashTexts}

\* One pass through the head of the loop body: the provider call of the
\* attempt, which only Ollama implements.
FlashAttempt(pr) ==
    IF provider' = "ollama"
    THEN Invoke("ollama", pr, "calling")
    ELSE /\ Finish(Raised("FlashcardGeneratorError", "OpenAI flashcards not implemented"))
         /\ UNCHANGED <<calls, prompt>>

FlashStart ==
    /\ pc = "start"
    /\ req.kind = "flashcards"
    /\ consulted' = TRUE
    /\ provider' = ConfiguredProvider("flashcards", cfg)
    /\ LET source == PrepareSource(req.text, MaxSourceChars("flashcards"))
           base == _build_prompt("flashcards", source, req.num)
       IN  IF provider' = None
           THEN /\ Finish(Raised("FlashcardGeneratorError", "No flashcard provider configured"))
                /\ UNCHANGED <<calls, prompt, work>>
           ELSE IF ~InRange(req.num, CardsMin, CardsMax)
           THEN /\ Finish(Raised("FlashcardGeneratorError", "num_cards must be between 1 and 100"))
                /\ UNCHANGED <<calls, prompt, work>>
           ELSE IF source = <<>>
           THEN /\ Finish(Raised("FlashcardGeneratorError", "No extracted text available"))
                /\ UNCHANGED <<calls, prompt, work>>
           ELSE /\ work' = [attempt_index |-> 0, base |-> base]
                /\ FlashAttempt(base)
    /\ UNCHANGED <<cfg, req, last_raw, heard, peer, db>>

FlashReply ==
    /\ pc = "calling"
    /\ req.kind = "flashcards"
    /\ provider' = provider
    /\ \E resp \in FlashResponses : Hears(resp) /\
        LET out == AdapterReply("flashcards", LastAdapter, resp)
        IN  IF out.status = "error"
            THEN /\ Finish(out)
                 /\ UNCHANGED <<calls, prompt, work, last_raw>>
            ELSE LET ex == ExtractJson("flashcards", out.text)
                     checked == IF ex.ok THEN ValidateCards(ex.value, req.num)
                                ELSE [msg |-> "Model did not return valid JSON",
                                      value |-> Absent]
                 IN  /\ last_raw' = out.text
                     /\ IF checked.msg = ""
                        THEN /\ Finish([status |-> "ok", payload |-> checked.value,
                                        provider |-> provider])
                             /\ UNCHANGED <<calls, prompt, work>>
                        ELSE IF work.attempt_index + 1 < FlashAttempts
                        THEN /\ work' = [work EXCEPT !.attempt_index = @ + 1]
                             /\ FlashAttempt(StrictPrompt(work.base))
                        ELSE /\ Finish(Raised("FlashcardGeneratorError",
                                              "Model did not return valid JSON"))
                             /\ UNCHANGED <<calls, prompt, work>>
    /\ UNCHANGED <<cfg, req, consulted, peer, db>>

InitFlash == InitCall("flashcards", FlashRequests)

NextFlash == FlashStart \/ FlashReply

(***************************************************************************)
(* mindmap_generator.generate_mindmap_with_provider (the title of the map  *)
(* is left out: no step of the call reads it back).                        *)
(***************************************************************************)
MinDepth == 2
MaxDepth == 8
MinNodes == 10
MaxNodes == 200
\* target_depth = min(max_depth, 4)
RefineDepth == 4

\* isinstance(v, dict) of a node value.
IsDictNode(v) == "dict" \in DOMAIN v /\ v.dict

Leaf(id, label) == RawNode(TRUE, id, label, <<>>)

\* A tree of depth d whose inner nodes have b children, no ids, no labels.
RECURSIVE Full(_, _)
Full(b, d) ==
    RawNode(FALSE, "", "", IF d <= 1 THEN <<>> ELSE [i \in 1..b |-> Full(b, d - 1)])

\* The trees the backend answers with.
Shallow == RawNode(TRUE, "r", "R", <<Leaf("a", "A")>>)

Deeper == RawNode(TRUE, "r", "R", <<RawNode(TRUE, "a", "A", <<Leaf("b", "B")>>)>>)

Renamed == RawNode(TRUE, "r", "R", <<Leaf("c", "C")>>)

Wide == RawNode(TRUE, "r", "R", <<Leaf("a", "A"), Leaf("b", "B"), Leaf("c", "C")>>)

WideDeeper ==
    RawNode(TRUE, "r", "R",
            <<RawNode(TRUE, "a", "A", <<Leaf("d", "D")>>), Leaf("b", "B"), Leaf("c", "C")>>)

Bushy == Full(3, 3)

Chain == Full(1, 5)

MindTexts ==
    {Raw("plain", v) :
        v \in {JStr, JDict("title", JStr), JDict("root", NonDictNode)}
              \cup {JDict("root", t) : t \in {Shallow, Deeper, Renamed, Wide, WideDeeper, Bushy, Chain}}}
    \cup {Raw("fenced", JDict("root", Shallow)), Raw("prose", JDict("root", Deeper)),
          InvalidRaw, EmptyRaw}

MindResponses == FailureResponses \cup {TextResponse(r) : r \in MindTexts}

Overrides == {None, "", "ollama", "openai", "gemini", " Gemini ", "bogus"}

MindRequests ==
    {[kind |-> "mindmap", text |-> t, max_depth |-> d, max_nodes |-> n, provider |-> o] :
        t \in Texts, o \in Overrides,
        d \in {MinDepth - 1, MinDepth, MinDepth + 1, MaxDepth, MaxDepth + 1},
        n \in {MinNodes - 1, MinNodes, MaxNodes, MaxNodes + 1}}

_build_refine_prompt(source, existing, max_depth, max_nodes) ==
    [variant |-> "refine", source |-> source, existing |-> existing,
     max_depth |-> max_depth, max_nodes |-> max_nodes]

\* A refinement pass that also deepens a tree already at the target depth.
ShouldRefineMut(clean_root, max_depth, max_nodes) ==
    LET st == _tree_stats(clean_root)
    IN  st.depth <= Min(max_depth, RefineDepth) /\ st.nodes < max_nodes

\* The condition of the refinement pass.
ShouldRefine(clean_root, max_depth, max_nodes) ==
    LET st == _tree_stats(clean_root)
    IN  st.depth < Min(max_depth, RefineDepth) /\ st.nodes < max_nodes

Returned(root) == [status |-> "ok", root |-> root, provider |-> provider]

MindStart ==
    /\ pc = "start"
    /\ req.kind = "mindmap"
    /\ consulted' = (Override("mindmap", req.provider) = None)
    /\ provider' = IF Override("mindmap", req.provider) = None
                   THEN ConfiguredProvider("mindmap", cfg)
                   ELSE Override("mindmap", req.provider)
    /\ LET source == PrepareSource(req.text, MaxSourceChars("mindmap"))
           base == _build_prompt("mindmap", source, <<req.max_depth, req.max_nodes>>)
           fail(msg) == /\ Finish(Raised("MindmapGeneratorError", msg))
                        /\ UNCHANGED <<calls, prompt, work>>
       IN  IF provider' = Undeclared
           THEN Finish(AttributeError) /\ UNCHANGED <<calls, prompt, work>>
           ELSE IF provider' = None
           THEN fail("No mindmap provider configured")
           ELSE IF ~InRange(req.max_depth, MinDepth, MaxDepth)
           THEN fail("max_depth must be between 2 and 8")
           ELSE IF ~InRange(req.max_nodes, MinNodes, MaxNodes)
           THEN fail("max_nodes must be between 10 and 200")
           ELSE IF source = <<>>
           THEN fail("No extracted text available to generate a mind map")
           ELSE IF provider' \in {"ollama", "gemini"}
           THEN /\ work' = [source |-> source]
                /\ Invoke(provider', base, "calling")
           ELSE IF provider' = "openai"
           THEN fail("OpenAI mindmap provider not implemented")
           ELSE fail("Unsupported provider")
    /\ UNCHANGED <<cfg, req, last_raw, heard, peer, db>>

\* The first answer: extraction, the shape checks, the sanitizer, and the
\* refinement request when the tree is shallow and below its node budget.
MindReply ==
    /\ pc = "calling"
    /\ req.kind = "mindmap"
    /\ \E resp \in MindResponses : Hears(resp) /\
        LET out == AdapterReply("mindmap", LastAdapter, resp)
            fail(res) == /\ Finish(res)
                         /\ UNCHANGED <<calls, prompt, work, last_raw>>
        IN  IF out.status = "error" THEN fail(out)
            ELSE LET ex == ExtractJson("mindmap", out.text)
                 IN  IF ~ex.ok
                     THEN fail(Raised("MindmapGeneratorError", "Model did not return valid JSON"))
                     ELSE IF ex.value.type # "dict"
                     THEN fail(Raised("MindmapGeneratorError", "Mindmap JSON must be an object"))
                     ELSE IF ~IsDictNode(Get(ex.value, "root"))
                     THEN fail(Raised("MindmapGeneratorError",
                                      "Mindmap JSON must include a root object"))
                     ELSE LET clean_root == _sanitize_tree(Get(ex.value, "root"),
                                                           req.max_depth, req.max_nodes)
                              adapter == IF provider = "ollama" THEN "ollama" ELSE "gemini"
                              refine_prompt == _build_refine_prompt(
                                  work.source, clean_root, req.max_depth, req.max_nodes)
                          IN  /\ last_raw' = out.text
                              /\ IF ~ShouldRefine(clean_root, req.max_depth, req.max_nodes)
                                 THEN /\ Finish(Returned(clean_root))
                                      /\ UNCHANGED <<calls, prompt, work>>
                                 ELSE /\ work' = [source |-> work.source,
                                                  clean_root |-> clean_root]
                                      /\ calls' = Append(calls,
                                            [adapter |-> adapter, prompt |-> refine_prompt,
                                             sent |-> AdapterReady("mindmap", adapter, cfg)])
                                      /\ prompt' = refine_prompt
                                      /\ IF AdapterReady("mindmap", adapter, cfg)
                                         THEN pc' = "refining" /\ result' = result
                                         ELSE Finish(Returned(clean_root))
    /\ UNCHANGED <<cfg, req, provider, consulted, peer, db>>

\* A refinement that hands the two budgets over in the wrong order.
RefinedRootMut(clean_root, out, max_depth, max_nodes) ==
    IF out.status = "error" THEN clean_root
    ELSE LET ex == ExtractJson("mindmap", out.text)
         IN  IF ex.ok /\ ex.value.type = "dict" /\ IsDictNode(Get(ex.value, "root"))
             THEN _sanitize_tree(Get(ex.value, "root"), max_nodes, max_depth)
             ELSE clean_root

\* What the refinement pass leaves in clean_root: the sanitized refined
\* tree when the answer parses to an object with a root object, else the
\* tree it had (every exception of the pass is swallowed).
RefinedRoot(clean_root, out, max_depth, max_nodes) ==
    IF out.status = "error" THEN clean_root
    ELSE LET ex == ExtractJson("mindmap", out.text)
         IN  IF ex.ok /\ ex.value.type = "dict" /\ IsDictNode(Get(ex.value, "root"))
             THEN _sanitize_tree(Get(ex.value, "root"), max_depth, max_nodes)
             ELSE clean_root

\* A refinement pass without its `except Exception`: a failure of the
\* adapter or of the extractor leaves the call.
MindRefineReplyMut ==
    /\ pc = "refining"
    /\ req.kind = "mindmap"
    /\ \E resp \in MindResponses : Hears(resp) /\
        LET out == AdapterReply("mindmap", LastAdapter, resp)
        IN  /\ IF out.status = "error"
               THEN Finish(out)
               ELSE IF ~ExtractJson("mindmap", out.text).ok
               THEN Finish(Raised("MindmapGeneratorError", "Model did not return valid JSON"))
               ELSE Finish(Returned(RefinedRoot(work.clean_root, out,
                                                req.max_depth, req.max_nodes)))
            /\ last_raw' = IF out.status = "error" THEN last_raw ELSE out.text
    /\ UNCHANGED <<cfg, req, provider, consulted, calls, prompt, work, peer, db>>

\* The answer to the refinement request.
MindRefineReply ==
    /\ pc = "refining"
    /\ req.kind = "mindmap"
    /\ \E resp \in MindResponses : Hears(resp) /\
        LET out == AdapterReply("mindmap", LastAdapter, resp)
        IN  /\ Finish(Returned(RefinedRoot(work.clean_root, out,
                                           req.max_depth, req.max_nodes)))
            /\ last_raw' = IF out.status = "error" THEN last_raw ELSE out.text
    /\ UNCHANGED <<cfg, req, provider, consulted, calls, prompt, work, peer, db>>

InitMind == InitCall("mindmap", MindRequests)

NextMind == MindStart \/ MindReply \/ MindRefineReply

(***************************************************************************)
(* theory_grader.grade_theory_answers.  Scores are in tenths: 10 is 1.0.   *)
(* A member of a grade is [t |-> "num", v] for a number, [t |-> "nan"] for *)
(* the float NaN and [t |-> "bad"] for a value int() or float() rejects    *)
(* (None, a missing key, a word).                                          *)
(***************************************************************************)
ScoreOne == 10

Num(v) == [t |-> "num", v |-> v]

NaN == [t |-> "nan", v |-> 0]

Bad == [t |-> "bad", v |-> 0]

Grade(id, score) == [type |-> "dict", id |-> id, score |-> score]

\* int(g.get("id")) succeeds.
IdParses(g) == g.id.t = "num"

\* float(g.get("score")) succeeds (NaN is a float).
ScoreParses(g) == g.score.t \in {"num", "nan"}

\* max(0.0, min(1.0, score)): min and max keep their first argument when
\* the comparison with NaN is false, so NaN comes out as 1.0.
ClampMut(score) ==
    IF score.t = "nan" THEN ScoreOne
    ELSE IF score.v < 0 THEN 0 ELSE score.v

Clamp(score) ==
    IF score.t = "nan" THEN ScoreOne
    ELSE LET m == IF score.v < ScoreOne THEN score.v ELSE ScoreOne
         IN  IF m > 0 THEN m ELSE 0

\* The "Normalize" loop over the grades.
RECURSIVE NormalizeGrades(_)
NormalizeGrades(grades) ==
    IF grades = <<>> THEN <<>>
    ELSE LET g == Head(grades)
         IN  IF g.type # "dict" THEN NormalizeGrades(Tail(grades))
             ELSE IF ~IdParses(g) \/ ~ScoreParses(g) THEN NormalizeGrades(Tail(grades))
             ELSE <<[id |-> g.id.v, score |-> Clamp(g.score)]>>
                    \o NormalizeGrades(Tail(grades))

GradeEntries ==
    {Grade(Num(1), Num(v)) : v \in {-5, 0, 5, ScoreOne, ScoreOne + 5}}
        \cup {Grade(Num(1), NaN), Grade(Num(2), Bad), Grade(Bad, Num(5)), JStr}

GradeTexts ==
    {Raw("plain", v) :
        v \in {JStr, JList(<<>>), JDict("title", JStr), JDict("grades", JStr)}
              \cup {JDict("grades", JList(l)) : l \in ItemLists(GradeEntries)}}
    \cup {Raw("fenced", JDict("grades", JList(<<Grade(Num(1), Num(5))>>))),
          Raw("prose", JDict("grades", JList(<<Grade(Num(1), Num(5))>>))),
          InvalidRaw, EmptyRaw}

GradeResponses == FailureResponses \cup {TextResponse(r) : r \in GradeTexts}

\* The items to grade: only their number matters to the call.
GradeRequests ==
    {[kind |-> "grading", items |-> [i \in 1..n |-> [id |-> i]]] : n \in 0..MaxItems}

GradeStart ==
    /\ pc = "start"
    /\ req.kind = "grading"
    /\ consulted' = TRUE
    /\ provider' = ConfiguredProvider("grading", cfg)
    /\ IF provider' = None
       THEN /\ Finish(Raised("TheoryGraderError", "No grading provider configured"))
            /\ UNCHANGED <<calls, prompt>>
       ELSE IF req.items = <<>>
       THEN /\ Finish([status |-> "ok", grades |-> <<>>, provider |-> provider'])
            /\ UNCHANGED <<calls, prompt>>
       ELSE IF provider' # "ollama"
       THEN /\ Finish(Raised("TheoryGraderError",
                             "Theory grading via OpenAI is not implemented"))
            /\ UNCHANGED <<calls, prompt>>
       ELSE Invoke("ollama", [variant |-> "grade", items |-> req.items], "calling")
    /\ UNCHANGED <<cfg, req, last_raw, work, heard, peer, db>>

GradeReply ==
    /\ pc = "calling"
    /\ req.kind = "grading"
    /\ \E resp \in GradeResponses : Hears(resp) /\
        LET out == AdapterReply("grading", "ollama", resp)
        IN  IF out.status = "error"
            THEN Finish(out) /\ last_raw' = last_raw
            ELSE LET ex == ExtractJson("grading", out.text)
                 IN  /\ last_raw' = out.text
                     /\ IF ~ex.ok
                        THEN Finish(Raised("TheoryGraderError",
                                           "Grader did not return valid JSON"))
                        ELSE IF ex.value.type # "dict"
                        THEN Finish(Raised("AttributeError", "object has no attribute get"))
                        ELSE LET grades == Get(ex.value, "grades")
                             IN  IF grades.type # "list"
                                    \/ Len(grades.items) # Len(req.items)
                                 THEN Finish(Raised("TheoryGraderError",
                                                    "Grader response missing/invalid grades"))
                                 ELSE Finish([status |-> "ok",
                                              grades |-> NormalizeGrades(grades.items),
                                              provider |-> provider])
    /\ UNCHANGED <<cfg, req, provider, consulted, calls, prompt, work, peer, db>>

InitGrade == InitCall("grading", GradeRequests)

NextGrade == GradeStart \/ GradeReply

(***************************************************************************)
(* summarizer.summarize_text_with_provider and chat.answer_question.  The  *)
(* generated text is a summary or an answer: only whether it is empty      *)
(* matters.                                                                *)
(***************************************************************************)
SomeText == Raw("plain", JStr)

TextResponses == FailureResponses \cup {TextResponse(SomeText), TextResponse(EmptyRaw)}

SummaryRequests ==
    {[kind |-> "summary", text |-> t, provider |-> o] : t \in Texts, o \in Overrides}

SummaryStart ==
    /\ pc = "start"
    /\ req.kind = "summary"
    /\ consulted' = (Override("summary", req.provider) = None)
    /\ provider' = IF Override("summary", req.provider) = None
                   THEN ConfiguredProvider("summary", cfg)
                   ELSE Override("summary", req.provider)
    /\ LET trimmed == PrepareSource(req.text, MaxSourceChars("summary"))
           fail(msg) == /\ Finish(Raised("SummarizerError", msg))
                        /\ UNCHANGED <<calls, prompt>>
       IN  IF provider' = Undeclared
           THEN Finish(AttributeError) /\ UNCHANGED <<calls, prompt>>
           ELSE IF provider' = None
           THEN fail("No summarization provider configured")
           ELSE IF trimmed = <<>>
           THEN fail("No extracted text available for summarization")
           ELSE IF provider' \in {"ollama", "openai", "gemini"}
           THEN Invoke(provider', [variant |-> "summary", source |-> trimmed], "calling")
           ELSE fail("Unsupported provider")
    /\ UNCHANGED <<cfg, req, last_raw, work, heard, peer, db>>

\* The adapter's text is returned as the summary (the OpenAI adapter may
\* return an empty one).
SummaryReply ==
    /\ pc = "calling"
    /\ req.kind = "summary"
    /\ \E resp \in TextResponses : Hears(resp) /\
        LET out == AdapterReply("summary", LastAdapter, resp)
        IN  IF out.status = "error"
            THEN Finish(out)
            ELSE Finish([status |-> "ok", text |-> out.text, provider |-> provider])
    /\ UNCHANGED <<cfg, req, provider, consulted, calls, prompt, last_raw, work, peer, db>>

\* msg = (message or "").strip()
ChatRequests ==
    {[kind |-> "chat", message |-> m, provider |-> o] : m \in {" ", "hi"}, o \in Overrides}

ChatStart ==
    /\ pc = "start"
    /\ req.kind = "chat"
    /\ consulted' = (Override("chat", req.provider) = None)
    /\ provider' = IF Override("chat", req.provider) = None
                   THEN ConfiguredProvider("chat", cfg)
                   ELSE Override("chat", req.provider)
    /\ LET fail(msg) == /\ Finish(Raised("ChatError", msg))
                        /\ UNCHANGED <<calls, prompt>>
       IN  IF provider' = Undeclared
           THEN Finish(AttributeError) /\ UNCHANGED <<calls, prompt>>
           ELSE IF provider' \in {None, ""}
           THEN fail("No chat provider configured")
           ELSE IF Strip(req.message) = ""
           THEN fail("Message is empty")
           ELSE IF provider' \in {"ollama", "openai", "gemini"}
           THEN Invoke(provider', [variant |-> "chat", message |-> Strip(req.message)],
                       "calling")
           ELSE fail("Unsupported provider")
    /\ UNCHANGED <<cfg, req, last_raw, work, heard, peer, db>>

ChatReply ==
    /\ pc = "calling"
    /\ req.kind = "chat"
    /\ \E resp \in TextResponses : Hears(resp) /\
        LET out == AdapterReply("chat", LastAdapter, resp)
        IN  IF out.status = "error"
            THEN Finish(out)
            ELSE IF out.text.form = "empty"
            THEN Finish(Raised("ChatError", "Chat response was empty"))
            ELSE Finish([status |-> "ok", text |-> out.text, provider |-> provider])
    /\ UNCHANGED <<cfg, req, provider, consulted, calls, prompt, last_raw, work, peer, db>>

InitText == InitCall("summary", SummaryRequests) \/ InitCall("chat", ChatRequests)

NextText == SummaryStart \/ SummaryReply \/ ChatStart \/ ChatReply

(***************************************************************************)
(* gemini_client.generate_text: one call with its own retry loop.  The     *)
(* argument responses is what the backend would answer to the first,       *)
(* second, ... request of the call.                                        *)
(***************************************************************************)
\* The largest max_retries of the calls examined.
MaxRetries == 2

\* What the backend answers to one request: an HTTP status with a readable
\* text, a 200 whose candidates carry no text, a timeout, a request error.
Ok200 == [kind |-> "status", code |-> 200, text |-> TRUE]

Empty200 == [kind |-> "status", code |-> 200, text |-> FALSE]

Status(code) == [kind |-> "status", code |-> code, text |-> FALSE]

GeminiTimeout == [kind |-> "timeout", code |-> 0, text |-> FALSE]

GeminiRequestError == [kind |-> "request_error", code |-> 0, text |-> FALSE]

BackendAnswers == {Ok200, Empty200, Status(429), Status(503), Status(400), GeminiTimeout}

GeminiError(msg) == Raised("GeminiClientError", msg)

\* _is_retryable_status
_is_retryable_status(code) == code \in {429, 500, 502, 503, 504}

\* _endpoint(): `if not settings.gemini_api_key:` reads an attribute that
\* Settings does not declare.
_endpoint(c) == Undeclared

\* The body of `for attempt in range(max_retries + 1)` from attempt on, with
\* sent requests made so far: [out |-> what the call returns or raises,
\* sent |-> the requests made].
RECURSIVE generate_text_loop(_, _, _, _, _)
generate_text_loop(c, responses, attempt, max_retries, sent) ==
    IF attempt > max_retries
    THEN [out |-> GeminiError("Gemini request failed"), sent |-> sent]
    ELSE IF _endpoint(c) = Undeclared
    THEN [out |-> AttributeError, sent |-> sent]
    ELSE LET res == responses[sent + 1]
             again == generate_text_loop(c, responses, attempt + 1, max_retries, sent + 1)
         IN  CASE res.kind = "status" /\ res.code = 200 ->
                    [out |-> IF res.text THEN [status |-> "ok", text |-> "text"]
                             ELSE GeminiError("Gemini response was empty"),
                     sent |-> sent + 1]
               [] res.kind = "status" /\ res.code # 200 ->
                    IF _is_retryable_status(res.code) /\ attempt < max_retries
                    THEN again
                    ELSE [out |-> GeminiError("Gemini request failed (status)"),
                          sent |-> sent + 1]
               [] res.kind = "timeout" ->
                    IF attempt < max_retries THEN again
                    ELSE [out |-> GeminiError("Gemini request timed out"), sent |-> sent + 1]
               [] res.kind = "request_error" ->
                    IF attempt < max_retries THEN again
                    ELSE [out |-> GeminiError("Gemini request error"), sent |-> sent + 1]

\* generate_text(user_prompt, max_retries=...)
generate_text(c, user_prompt, responses, max_retries) ==
    IF Strip(user_prompt) = ""
    THEN [out |-> GeminiError("Prompt is empty"), sent |-> 0]
    ELSE generate_text_loop(c, responses, 0, max_retries, 0)

GeminiRequests ==
    {[kind |-> "gemini", prompt |-> p, max_retries |-> n, responses |-> rs] :
        p \in {" ", "p"}, n \in 0..MaxRetries,
        rs \in UNION {[1..k -> BackendAnswers] : k \in 1..(MaxRetries + 1)}}

InitGemini ==
    /\ InitCall("gemini", {r \in GeminiRequests : Len(r.responses) = r.max_retries + 1})
    /\ ~cfg.ollama_url /\ ~cfg.ollama_model

\* The whole call: the requests it made are logged in calls, the responses
\* it consumed in heard.
GeminiCall ==
    /\ pc = "start"
    /\ req.kind = "gemini"
    /\ LET r == generate_text(cfg, req.prompt, req.responses, req.max_retries)
       IN  /\ Finish(r.out)
           /\ calls' = [i \in 1..r.sent |->
                            [adapter |-> "gemini", prompt |-> req.prompt, sent |-> TRUE]]
           /\ heard' = SubSeq(req.responses, 1, r.sent)
    /\ UNCHANGED <<cfg, req, provider, consulted, prompt, last_raw, work, peer, db>>

NextGemini == GeminiCall

(***************************************************************************)
(* _prepare_source as a function of the text and the character limit, and  *)
(* applied once more to its own output.  The limit is                      *)
(* MAX_SOURCE_CHARS of quiz_generator and the setting                      *)
(* <kind>_max_source_chars of the other modules.                           *)
(***************************************************************************)
\* The longest text and the largest limit of the calls examined.
MaxChars == 5

\* Every text of at most MaxChars characters, each a letter or whitespace.
SourceTexts == UNION {[1..n -> {"a", " "}] : n \in 0..MaxChars}

InitBudget ==
    /\ cfg = None
    /\ \E t \in SourceTexts, l \in 0..MaxChars :
            req = [kind |-> "budget", text |-> t, limit |-> l]
    /\ pc = "start"
    /\ provider = None
    /\ consulted = FALSE
    /\ calls = <<>>
    /\ prompt = None
    /\ last_raw = None
    /\ work = None
    /\ result = Idle
    /\ heard = <<>>
    /\ peer = NoPeer
    /\ db = NoDb

\* _prepare_source(text)
BudgetCall ==
    /\ pc = "start"
    /\ req.kind = "budget"
    /\ work' = [source |-> PrepareSource(req.text, req.limit)]
    /\ pc' = "budgeted"
    /\ UNCHANGED <<cfg, req, provider, consulted, calls, prompt, last_raw, result, heard, peer, db>>

\* _prepare_source(source): the output is budgeted once more.
BudgetAgain ==
    /\ pc = "budgeted"
    /\ req.kind = "budget"
    /\ Finish([status |-> "ok", source |-> PrepareSource(work.source, req.limit)])
    /\ UNCHANGED <<cfg, req, provider, consulted, calls, prompt, last_raw, work, heard, peer, db>>

NextBudget == BudgetCall \/ BudgetAgain

(***************************************************************************)
(* The specification: one call of any of the operations.                   *)
(***************************************************************************)
Init ==
    \/ InitSanitize \/ InitScan \/ InitExtract \/ InitQuiz \/ InitFlash \/ InitMind
    \/ InitGrade \/ InitText \/ InitGemini \/ InitBudget

Next ==
    \/ NextSanitize \/ NextScan \/ NextExtract \/ NextQuiz \/ NextFlash \/ NextMind
    \/ NextGrade \/ NextText \/ NextGemini \/ NextBudget

Spec == Init /\ [][Next]_vars

(***************************************************************************)
(* SpecPair: two generation requests in one event loop.  A coroutine runs  *)
(* from one await to the next without interruption; at an await the loop   *)
(* may resume the other coroutine.  The variables req .. heard are the     *)
(* locals of the running coroutine, peer holds those of the suspended one, *)
(* and cfg (the module-level settings object) is what the two share.       *)
(***************************************************************************)
\* The locals of the running call, as its coroutine frame keeps them.
Frame ==
    [req |-> req, pc |-> pc, provider |-> provider, consulted |-> consulted,
     calls |-> calls, prompt |-> prompt, last_raw |-> last_raw, work |-> work,
     result |-> result, heard |-> heard]

\* The frame of a call that has not started.
Fresh(r) ==
    [req |-> r, pc |-> "start", provider |-> None, consulted |-> FALSE,
     calls |-> <<>>, prompt |-> None, last_raw |-> None, work |-> None,
     result |-> Idle, heard |-> <<>>]

\* The selected provider is kept in one place for all calls.
ResumeMut(f) ==
    /\ req' = f.req
    /\ pc' = f.pc
    /\ provider' = provider
    /\ consulted' = f.consulted
    /\ calls' = f.calls
    /\ prompt' = f.prompt
    /\ last_raw' = f.last_raw
    /\ work' = f.work
    /\ result' = f.result
    /\ heard' = f.heard

\* The coroutine with frame f goes on with its own locals.
Resume(f) ==
    /\ req' = f.req
    /\ pc' = f.pc
    /\ provider' = f.provider
    /\ consulted' = f.consulted
    /\ calls' = f.calls
    /\ prompt' = f.prompt
    /\ last_raw' = f.last_raw
    /\ work' = f.work
    /\ result' = f.result
    /\ heard' = f.heard

\* The event loop passes from the running call, which is at an await or has
\* ended, to the other call.
Switch ==
    /\ peer.pc \in {"start", "calling", "refining"}
    /\ Resume(peer)
    /\ peer' = Frame
    /\ UNCHANGED <<cfg, db>>

\* Both calls have ended.  One of them, f, is kept as the reference and its
\* request is run once more, alone, with the responses f received.
StartReplay ==
    /\ pc = "done"
    /\ peer.pc = "done"
    /\ \E own \in BOOLEAN :
            LET f == IF own THEN Frame ELSE peer
            IN  /\ peer' = [f EXCEPT !.pc = "reference"]
                /\ Resume(Fresh(f.req))
    /\ UNCHANGED <<cfg, db>>

PairCfgs ==
    {c \in AllCfgs :
        /\ c.ollama_url /\ c.ollama_model
        /\ ~c.ollama_flashcards_model /\ ~c.ollama_grader_model
        /\ ~c.ollama_summary_model /\ ~c.openai_api_key
        /\ c.app_env = "prod"}

PairRequests ==
    {[kind |-> "quiz", text |-> <<"a", " ", " ", "b">>, num |-> 1],
     [kind |-> "mindmap", text |-> <<"a", " ", " ", "b">>,
      max_depth |-> MinDepth + 1, max_nodes |-> MinNodes, provider |-> None],
     [kind |-> "mindmap", text |-> <<"a", " ", " ", "b">>,
      max_depth |-> MinDepth + 1, max_nodes |-> MinNodes, provider |-> "openai"]}

\* The responses the provider gives while two calls are under way.
PairResponses ==
    {[kind |-> "http_error", text |-> EmptyRaw], TextResponse(InvalidRaw)}
    \cup {TextResponse(Raw("plain", JDict("questions", JList(l)))) :
            l \in {<<GoodQ>>, <<GoodQ, GoodQ>>}}
    \cup {TextResponse(Raw("plain", JDict("root", t))) : t \in {Shallow, Deeper, Renamed}}

\* The response just received: one of PairResponses while the two calls
\* run, the response the reference received at this point in a replay.
PairHears ==
    IF peer.pc = "reference"
    THEN /\ Len(heard') <= Len(peer.heard)
         /\ heard'[Len(heard')] = peer.heard[Len(heard')]
    ELSE heard'[Len(heard')] \in PairResponses

PairQuizReply == QuizReply /\ PairHears

PairMindReply == MindReply /\ PairHears

PairMindRefineReply == MindRefineReply /\ PairHears

InitPair ==
    /\ cfg \in PairCfgs
    /\ req \in PairRequests
    /\ pc = "start"
    /\ provider = None
    /\ consulted = FALSE
    /\ calls = <<>>
    /\ prompt = None
    /\ last_raw = None
    /\ work = None
    /\ result = Idle
    /\ heard = <<>>
    /\ peer \in {Fresh(r) : r \in PairRequests}
    /\ db = NoDb

NextPair ==
    \/ Switch
    \/ StartReplay
    \/ QuizStart
    \/ PairQuizReply
    \/ MindStart
    \/ PairMindReply
    \/ PairMindRefineReply

SpecPair == InitPair /\ [][NextPair]_vars
(***************************************************************************)
(* SpecFiles: api/routes/files.py.  The background task                    *)
(* _process_uploaded_file of an uploaded file and one delete_file request  *)
(* for the same file run in one event loop; each action is one coroutine   *)
(* from one await (a database or GridFS operation) to the next.  pc and    *)
(* work are the position and the locals of the background task, peer those *)
(* of the delete handler, db the state of the file in the database:        *)
(* processing_status and deleted_at of its document in files, whether its  *)
(* GridFS file still exists, and the number of its extracted_pages.        *)
(***************************************************************************)
\* The most pages with text an upload is extracted into.
MaxPages == 2

\* upload_file: the document it inserts and the file it stores.
Uploaded == [status |-> "pending", deleted |-> FALSE, blob |-> TRUE, pages |-> 0]

InitFiles ==
    /\ cfg = None
    /\ \E n \in 0..MaxPages, f \in BOOLEAN :
            req = [kind |-> "files", pages |-> n, extraction_fails |-> f]
    /\ pc = "start"
    /\ provider = None
    /\ consulted = FALSE
    /\ calls = <<>>
    /\ prompt = None
    /\ last_raw = None
    /\ work = None
    /\ result = Idle
    /\ heard = <<>>
    /\ peer = [pc |-> "start"]
    /\ db = Uploaded

\* What no step of the two coroutines changes.
FilesFixed == UNCHANGED <<cfg, req, provider, consulted, calls, prompt, last_raw, result, heard>>

\* update_one({_id, user_id, deleted_at: None}, processing_status: "processing")
ProcessMark ==
    /\ req.kind = "files"
    /\ pc = "start"
    /\ db' = IF db.deleted THEN db ELSE [db EXCEPT !.status = "processing"]
    /\ pc' = "marked"
    /\ UNCHANGED <<work, peer>>
    /\ FilesFixed

\* find_one({_id: file_id}, {gridfs_id: 1}): the document exists and holds
\* the gridfs_id upload_file gave it, deleted or not.
ProcessFind ==
    /\ req.kind = "files"
    /\ pc = "marked"
    /\ pc' = "found"
    /\ UNCHANGED <<work, peer, db>>
    /\ FilesFixed

\* fs.open_download_stream(gridfs_id): NoFile once the GridFS file is gone.
ProcessOpen ==
    /\ req.kind = "files"
    /\ pc = "found"
    /\ pc' = IF db.blob THEN "opened" ELSE "failing"
    /\ UNCHANGED <<work, peer, db>>
    /\ FilesFixed

\* downloader.read() and the extraction that follows it without an await.
\* Reading a file deleted since it was opened may fail or still succeed.
ProcessRead ==
    /\ req.kind = "files"
    /\ pc = "opened"
    /\ \E read \in IF db.blob THEN {TRUE} ELSE BOOLEAN :
            IF ~read \/ req.extraction_fails
            THEN pc' = "failing" /\ work' = work
            ELSE /\ work' = [extracted_docs |-> req.pages]
                 /\ pc' = IF req.pages > 0 THEN "inserting" ELSE "completing"
    /\ UNCHANGED <<peer, db>>
    /\ FilesFixed

\* db.extracted_pages.insert_many(extracted_docs)
ProcessInsert ==
    /\ req.kind = "files"
    /\ pc = "inserting"
    /\ db' = [db EXCEPT !.pages = db.pages + work.extracted_docs]
    /\ pc' = "completing"
    /\ UNCHANGED <<work, peer>>
    /\ FilesFixed

\* update_one({_id, user_id}, processing_status: "completed")
ProcessComplete ==
    /\ req.kind = "files"
    /\ pc = "completing"
    /\ db' = [db EXCEPT !.status = "completed"]
    /\ pc' = "done"
    /\ UNCHANGED <<work, peer>>
    /\ FilesFixed

\* except Exception: update_one({_id, user_id}, processing_status: "failed")
ProcessFail ==
    /\ req.kind = "files"
    /\ pc = "failing"
    /\ db' = [db EXCEPT !.status = "failed"]
    /\ pc' = "done"
    /\ UNCHANGED <<work, peer>>
    /\ FilesFixed

\* delete_file: find_one({_id, user_id, deleted_at: None}); 404 when the
\* file is not there.
DeleteFind ==
    /\ req.kind = "files"
    /\ peer.pc = "start"
    /\ peer' = [pc |-> IF db.deleted THEN "not_found" ELSE "found"]
    /\ UNCHANGED <<pc, work, db>>
    /\ FilesFixed

\* fs.delete(gridfs_id), whose failure is ignored.
DeleteBlob ==
    /\ req.kind = "files"
    /\ peer.pc = "found"
    /\ \E deleted \in BOOLEAN : db' = [db EXCEPT !.blob = db.blob /\ ~deleted]
    /\ peer' = [pc |-> "stored_file_deleted"]
    /\ UNCHANGED <<pc, work>>
    /\ FilesFixed

\* db.extracted_pages.delete_many({file_id, user_id})
DeletePages ==
    /\ req.kind = "files"
    /\ peer.pc = "stored_file_deleted"
    /\ db' = [db EXCEPT !.pages = 0]
    /\ peer' = [pc |-> "pages_deleted"]
    /\ UNCHANGED <<pc, work>>
    /\ FilesFixed

\* update_one({_id, user_id}, deleted_at: now); return {"ok": True}
DeleteMark ==
    /\ req.kind = "files"
    /\ peer.pc = "pages_deleted"
    /\ db' = [db EXCEPT !.deleted = TRUE]
    /\ peer' = [pc |-> "done"]
    /\ UNCHANGED <<pc, work>>
    /\ FilesFixed

NextFiles ==
    \/ ProcessMark \/ ProcessFind \/ ProcessOpen \/ ProcessRead \/ ProcessInsert
    \/ ProcessComplete \/ ProcessFail
    \/ DeleteFind \/ DeleteBlob \/ DeletePages \/ DeleteMark

SpecFiles == InitFiles /\ [][NextFiles]_vars

(***************************************************************************)
(* Measures of a sanitized tree used by the properties.                    *)
(***************************************************************************)
RECURSIVE SumSeq(_)
SumSeq(q) == IF q = <<>> THEN 0 ELSE Head(q) + SumSeq(Tail(q))

RECURSIVE MaxSeq(_)
MaxSeq(q) ==
    IF q = <<>> THEN 0
    ELSE LET m == MaxSeq(Tail(q)) IN IF Head(q) > m THEN Head(q) ELSE m

\* The number of nodes reachable from t.
RECURSIVE NodeCount(_)
NodeCount(t) == 1 + SumSeq([i \in 1..Len(t.children) |-> NodeCount(t.children[i])])

\* The depth of t, a leaf having depth 1.
RECURSIVE TreeDepth(_)
TreeDepth(t) == 1 + MaxSeq([i \in 1..Len(t.children) |-> TreeDepth(t.children[i])])

\* A tree was returned: by _sanitize_tree itself or as the root of a mind map.
TreeReturned ==
    /\ pc = "done"
    /\ req.kind \in {"sanitize", "mindmap"}
    /\ result.status = "ok"

\* The mind map was returned after the refinement request had been sent.
RefinementAnswered ==
    /\ pc = "done"
    /\ req.kind = "mindmap"
    /\ result.status = "ok"
    /\ Len(calls) = 2
    /\ calls[2].sent

(***************************************************************************)
(* Properties of the tree sanitizer.                                       *)
(***************************************************************************)
\* C1: every tree returned by _sanitize_tree, and so every root returned by
\* generate_mindmap_with_provider with or without refinement, has at most
\* max_nodes nodes.
C1_NodeBudget == TreeReturned => NodeCount(result.root) <= req.max_nodes

\* C2: every tree returned by _sanitize_tree for max_depth >= 1, and every
\* root returned by generate_mindmap_with_provider with or without
\* refinement, has depth at most max_depth, the root counting as depth 1.
C2_DepthBudget == TreeReturned => TreeDepth(result.root) <= req.max_depth

\* C2 happens: a refined tree deeper than the budget came back from the
\* backend and was cut to exactly max_depth levels.
C2_Witness ==
    /\ RefinementAnswered
    /\ last_raw = Raw("plain", JDict("root", Chain))
    /\ result.root # work.clean_root
    /\ TreeDepth(result.root) = req.max_depth

(***************************************************************************)
(* Properties of the retry loop of quizzes and flashcards.                 *)
(***************************************************************************)
\* The collection of a returned quiz or set of flashcards.
Collection ==
    Get(result.payload, IF req.kind = "quiz" THEN "questions" ELSE "cards").items

Generated ==
    /\ pc = "done"
    /\ req.kind \in {"quiz", "flashcards"}
    /\ result.status = "ok"

\* C3: a quiz or a set of flashcards that is returned (not raised) was asked
\* for with a count N in range and its collection has exactly N elements.
C3_ExactCount ==
    Generated =>
        /\ req.num >= 1
        /\ req.num <= (IF req.kind = "quiz" THEN 50 ELSE 100)
        /\ Len(Collection) = req.num

\* C3 happens: two questions were asked for, the first output held three
\* and was turned down, the second held two and was returned.
C3_Witness ==
    /\ Generated
    /\ req.kind = "quiz"
    /\ req.num = 2
    /\ Len(calls) = 2
    /\ calls[2].prompt.invalid = Raw("plain", JDict("questions", JList(<<GoodQ, GoodQ, GoodQ>>)))
    /\ Len(Collection) = 2

\* The text passes extraction and validation for the request.
Passes(raw) ==
    /\ ExtractJson(req.kind, raw).ok
    /\ IF req.kind = "quiz"
       THEN ValidateQuiz(ExtractJson("quiz", raw).value, req.num) = ""
       ELSE ValidateCards(ExtractJson("flashcards", raw).value, req.num).msg = ""

\* The payload the loop returns for a text that passes.
ParsedFrom(raw) ==
    IF req.kind = "quiz" THEN ExtractJson("quiz", raw).value
    ELSE ValidateCards(ExtractJson("flashcards", raw).value, req.num).value

\* C4: a quiz or flashcards request invokes the provider at most twice, and
\* when a second attempt was made (the first output failed) and its output
\* passes extraction and validation, the request returns the payload parsed
\* from that second output and no error.
C4_TwoAttempts ==
    req.kind \in {"quiz", "flashcards"} =>
        /\ Len(calls) <= 2
        /\ (pc = "done" /\ Len(calls) = 2 /\ Passes(last_raw)) =>
                /\ result.status = "ok"
                /\ result.payload = ParsedFrom(last_raw)

\* C4 happens: the first output of a flashcards request was no JSON, the
\* second one passed and its cards were returned.
C4_Witness ==
    /\ Generated
    /\ req.kind = "flashcards"
    /\ Len(calls) = 2
    /\ calls[2].prompt = StrictPrompt(calls[1].prompt)
    /\ Passes(last_raw)
    /\ result.payload = ParsedFrom(last_raw)

(***************************************************************************)
(* Properties of the refinement pass of mind maps.                         *)
(***************************************************************************)
\* Every node of pre is in post at the same position with its id and label.
RECURSIVE Embeds(_, _)
Embeds(pre, post) ==
    /\ pre.id = post.id
    /\ pre.label = post.label
    /\ Len(pre.children) <= Len(post.children)
    /\ \A i \in 1..Len(pre.children) : Embeds(pre.children[i], post.children[i])

\* Every node of the sanitized tree pre is in the raw tree at the same
\* position with its id and label (the id of the root is not compared: the
\* sanitizer names every root "root").
RECURSIVE RawEmbeds(_, _, _)
RawEmbeds(pre, raw, isRoot) ==
    /\ raw.dict
    /\ isRoot \/ (raw.hasId /\ raw.id = pre.id)
    /\ raw.label = pre.label
    /\ raw.kidsList
    /\ Len(pre.children) <= Len(raw.children)
    /\ \A i \in 1..Len(pre.children) : RawEmbeds(pre.children[i], raw.children[i], FALSE)

\* The last output of the backend is a JSON object with a root object.
AnswerHasRoot ==
    /\ ExtractJson("mindmap", last_raw).ok
    /\ ExtractJson("mindmap", last_raw).value.type = "dict"
    /\ IsDictNode(Get(ExtractJson("mindmap", last_raw).value, "root"))

\* C5 as claimed: after the refinement pass every node of the pre-refinement
\* tree is in the returned tree with the same id and label at the same
\* position.
C5_RefinementPreservesNodes ==
    RefinementAnswered => Embeds(work.clean_root, result.root)

\* C5 as amended: after the refinement pass every node of the
\* pre-refinement tree is in the returned tree with the same id and label
\* at the same position provided the tree the backend answered with holds
\* that node so; the pass itself compares nothing.
C5_RefinementKeepsWhatBackendKept ==
    (/\ RefinementAnswered
     /\ AnswerHasRoot
     /\ RawEmbeds(work.clean_root, Get(ExtractJson("mindmap", last_raw).value, "root"), TRUE))
        => Embeds(work.clean_root, result.root)

\* C5 happens: the backend answered the refinement request with the tree
\* it was given plus one new node, and that tree was returned.
C5_Witness ==
    /\ RefinementAnswered
    /\ last_raw = Raw("plain", JDict("root", WideDeeper))
    /\ work.clean_root = _sanitize_tree(Wide, req.max_depth, req.max_nodes)
    /\ result.root # work.clean_root
    /\ NodeCount(result.root) = NodeCount(work.clean_root) + 1
    /\ Embeds(work.clean_root, result.root)

(***************************************************************************)
(* Properties of provider selection.                                       *)
(***************************************************************************)
\* The settings name a local backend: its URL and a model for it.
LocalConfigured ==
    /\ cfg.ollama_url
    /\ \/ cfg.ollama_model
       \/ cfg.ollama_flashcards_model
       \/ cfg.ollama_grader_model
       \/ cfg.ollama_summary_model

\* The provider argument of the call when it has one.
GivenProvider == IF req.kind \in {"mindmap", "summary", "chat"} THEN req.provider ELSE None

\* C6: when the configuration is consulted, in all six kinds of call, the
\* local provider is selected whenever it is configured, whatever cloud
\* key is set; OpenAI is selected when its key is set and the local
\* provider is not configured; Gemini is selected only when neither of the
\* other two is configured.
C6_Precedence ==
    (req.kind \in Kinds /\ consulted) =>
        /\ LocalConfigured => provider = "ollama"
        /\ (~LocalConfigured /\ cfg.openai_api_key) => provider = "openai"
        /\ provider = "gemini" => (~LocalConfigured /\ ~cfg.openai_api_key)

\* C6 happens: a chat with the local provider and the OpenAI key
\* configured and no override was answered by the local provider.
C6_Witness ==
    /\ pc = "done"
    /\ req.kind = "chat"
    /\ req.provider = None
    /\ LocalConfigured /\ cfg.openai_api_key
    /\ result.status = "ok"
    /\ result.provider = "ollama"
    /\ calls[1].adapter = "ollama"

\* The providers a call can be pointed at by name.
Supported ==
    IF req.kind = "mindmap" THEN {"ollama", "gemini"} ELSE {"ollama", "openai", "gemini"}

\* C7: a mindmap, summary or chat call given the name of a supported
\* provider never consults the configured selection, invokes no adapter but
\* that provider's, and a result it returns was produced by that adapter and
\* reports that provider; the configured selection is consulted only by a
\* call given no provider (None or an empty name).
C7_Override ==
    req.kind \in {"mindmap", "summary", "chat"} =>
        /\ req.provider \in Supported =>
                /\ ~consulted
                /\ \A i \in 1..Len(calls) : calls[i].adapter = req.provider
                /\ (pc = "done" /\ result.status = "ok") =>
                        /\ Len(calls) >= 1
                        /\ result.provider = req.provider
        /\ consulted => req.provider \in {None, ""}

\* C7 happens: with the local provider configured a summary was asked for
\* from OpenAI, the request went to OpenAI and the result reports it.
C7_Witness ==
    /\ pc = "done"
    /\ req.kind = "summary"
    /\ req.provider = "openai"
    /\ LocalConfigured /\ cfg.openai_api_key
    /\ ~consulted
    /\ result.status = "ok"
    /\ result.provider = "openai"
    /\ Len(calls) = 1
    /\ calls[1].adapter = "openai" /\ calls[1].sent

\* The message of each module's "no provider" error.
ConfigurationMessages ==
    {"No quiz provider configured", "No flashcard provider configured",
     "No mindmap provider configured", "No grading provider configured",
     "No summarization provider configured", "No chat provider configured"}

\* C8: with no provider configured and none given, every kind of call, once
\* it has started, has ended with its typed "no provider configured" error
\* and has made no provider call.
C8_NoProvider ==
    (/\ req.kind \in Kinds
     /\ ~LocalConfigured /\ ~cfg.openai_api_key
     /\ GivenProvider \in {None, ""}
     /\ pc # "start") =>
        /\ pc = "done"
        /\ result.status = "error"
        /\ result.error = TypedError(req.kind)
        /\ result.msg \in ConfigurationMessages
        /\ calls = <<>>

(***************************************************************************)
(* Properties of the parameter checks.                                     *)
(***************************************************************************)
\* A parameter of the request is outside its allowed range.
OutOfRange ==
    CASE req.kind = "quiz" -> req.num < 1 \/ req.num > 50
      [] req.kind = "flashcards" -> req.num < 1 \/ req.num > 100
      [] req.kind = "mindmap" ->
            \/ req.max_depth < 2 \/ req.max_depth > 8
            \/ req.max_nodes < 10 \/ req.max_nodes > 200
      [] OTHER -> FALSE

\* C9: a quiz, flashcards or mindmap call with a parameter outside its range
\* has, once started, ended with the typed error of its module and has made
\* no provider call.
C9_OutOfRange ==
    (OutOfRange /\ pc # "start") =>
        /\ pc = "done"
        /\ result.status = "error"
        /\ result.error = TypedError(req.kind)
        /\ calls = <<>>

(***************************************************************************)
(* Properties of the grades.                                               *)
(***************************************************************************)
\* The entry of the backend has an id int() accepts and a score float() accepts.
Parsable(e) ==
    /\ e.type = "dict"
    /\ e.id.t = "num"
    /\ e.score.t \in {"num", "nan"}

\* The grades of the backend's answer, as parsed.
BackendGrades == Get(ExtractJson("grading", last_raw).value, "grades").items

Graded ==
    /\ pc = "done"
    /\ req.kind = "grading"
    /\ result.status = "ok"
    /\ Len(calls) = 1

\* C10: every returned score lies in [0, 1]; the returned grades are the
\* backend's parsable entries in their order, a score below 0 returned as 0
\* and one above 1 as 1; entries whose id or score does not parse are absent.
C10_Scores ==
    Graded =>
        LET kept == SelectSeq(BackendGrades, Parsable)
        IN  /\ Len(result.grades) = Len(kept)
            /\ \A k \in 1..Len(result.grades) :
                    LET got == result.grades[k]
                        sent == kept[k]
                    IN  /\ got.score >= 0 /\ got.score <= ScoreOne
                        /\ got.id = sent.id.v
                        /\ (sent.score.t = "num" /\ sent.score.v < 0) => got.score = 0
                        /\ (sent.score.t = "num" /\ sent.score.v > ScoreOne)
                                => got.score = ScoreOne
                        /\ (sent.score.t = "num" /\ sent.score.v >= 0
                                /\ sent.score.v <= ScoreOne) => got.score = sent.score.v

\* C10 happens: the backend scored three answers 1.5, unparsable and -0.5;
\* two grades came back, 1 and 0.
C10_Witness ==
    /\ Graded
    /\ BackendGrades = <<Grade(Num(1), Num(ScoreOne + 5)), Grade(Num(2), Bad),
                         Grade(Num(1), Num(-5))>>
    /\ result.grades = <<[id |-> 1, score |-> ScoreOne], [id |-> 1, score |-> 0]>>

(***************************************************************************)
(* C11  The balanced scan returns the whole first object: braces, escaped  *)
(* quotes and escaped backslashes inside its double-quoted strings neither *)
(* change the depth nor end the string, so the candidate ends at the       *)
(* object's own closing brace whatever follows the object.                 *)
(***************************************************************************)
C11_WholeObject ==
    (req.kind = "scan" /\ pc = "done")
        => result.candidate = [found |-> TRUE, text |-> req.object]

C11_Witness ==
    /\ req.kind = "scan"
    /\ pc = "done"
    /\ req.object = <<"{", DQ, BS, DQ, "}", DQ, "{", DQ, "{", DQ, "}", "}">>
    /\ req.after = <<"}">>
    /\ result.candidate.found
    /\ result.candidate.text = req.object

(***************************************************************************)
(* C12  Every extractor (quiz, flashcards, mindmap, grading) recovers the  *)
(* intended payload from a text that is a valid payload except for curly   *)
(* quotation marks as string delimiters and/or a trailing comma before a   *)
(* closing brace or bracket.                                               *)
(***************************************************************************)
OnlyFlawed ==
    /\ req.kind = "extract"
    /\ req.flaw # "none"
    /\ req.wrapping \in {"plain", "fenced", "tagged"}

C12_Recovers ==
    (OnlyFlawed /\ pc = "done")
        => (result.status = "ok" /\ result.value = req.payload)

\* The repairs leave the payload itself as it is: its strings hold no curly
\* quotation mark and no comma before a closing brace or bracket.
RepairNeutral == _repair_common_json_issues(req.payload) = req.payload

\* The quiz extractor, which repairs the text, does recover such a payload.
C12_QuizRecovers ==
    (OnlyFlawed /\ req.module = "quiz" /\ RepairNeutral /\ pc = "done")
        => (result.status = "ok" /\ result.value = req.payload)

(***************************************************************************)
(* C13  Every question of a returned quiz has exactly 4 options labelled   *)
(* from {A, B, C, D} and an answer in {A, B, C, D}; a payload with the     *)
(* right number of questions but a question violating this is never        *)
(* returned.                                                               *)
(***************************************************************************)
Labels == {"A", "B", "C", "D"}

WellFormedQuestion(q) ==
    /\ q.type = "dict"
    /\ Len(q.options) = 4
    /\ \A i \in 1..Len(q.options) : q.options[i] \in Labels
    /\ q.answer \in Labels

C13_QuestionShape ==
    (req.kind = "quiz" /\ pc = "done" /\ result.status = "ok")
        => \A i \in 1..Len(Collection) : WellFormedQuestion(Collection[i])

(***************************************************************************)
(* C14  When the normalized, depth-pruned tree still has more than         *)
(* max_nodes nodes, _sanitize_tree returns exactly max_nodes nodes: the    *)
(* first max_nodes nodes of that tree in breadth-first order, siblings in  *)
(* their order.                                                            *)
(***************************************************************************)
RECURSIVE BreadthFirst(_)
\* The nodes of the trees of queue (id and label) in breadth-first order.
BreadthFirst(queue) ==
    IF queue = <<>> THEN <<>>
    ELSE <<[id |-> Head(queue).id, label |-> Head(queue).label]>>
            \o BreadthFirst(Tail(queue) \o Head(queue).children)

\* The tree the node-count prune starts from.
DepthPruned ==
    prune_depth([normalize(req.root, 1).node EXCEPT !.id = "root"], 1, req.max_depth)

C14_BreadthFirstPrefix ==
    (req.kind = "sanitize" /\ pc = "done" /\ NodeCount(DepthPruned) > req.max_nodes)
        => /\ NodeCount(result.root) = req.max_nodes
           /\ BreadthFirst(<<result.root>>)
                = SubSeq(BreadthFirst(<<DepthPruned>>), 1, req.max_nodes)

(***************************************************************************)
(* C15  In every tree returned by _sanitize_tree the node ids are pairwise *)
(* distinct: the root has id "root" and no two nodes share an id, whatever *)
(* ids the backend supplied.                                               *)
(***************************************************************************)
DistinctIds(tree) ==
    LET nodes == BreadthFirst(<<tree>>)
    IN  \A i, j \in 1..Len(nodes) : i # j => nodes[i].id # nodes[j].id

C15_UniqueIds ==
    (req.kind = "sanitize" /\ pc = "done")
        => (result.root.id = "root" /\ DistinctIds(result.root))

(***************************************************************************)
(* C16  In quiz and flashcard generation a provider failure on the first   *)
(* attempt is one failed attempt: the provider is called once more, and    *)
(* the request fails only after the second attempt failed as well.         *)
(***************************************************************************)
C16_FailsOnlyAfterSecondAttempt ==
    (/\ req.kind \in {"quiz", "flashcards"}
     /\ pc = "done"
     /\ result.status = "error"
     /\ Len(calls) >= 1
     /\ calls[1].sent)
        => Len(calls) = 2

(***************************************************************************)
(* C17  No exception of the transport library leaves an adapter: a call    *)
(* whose provider request timed out or could not be delivered ends with    *)
(* the calling module's typed error, also through the OpenAI adapters.     *)
(***************************************************************************)
TransportExceptions == {"httpx.TimeoutException", "httpx.RequestError"}

C17_NoTransportExceptionEscapes ==
    (req.kind \in Kinds /\ pc = "done" /\ result.status = "error")
        => result.error \notin TransportExceptions

(***************************************************************************)
(* C18  Two concurrent generation requests do not interfere: whatever the  *)
(* interleaving of the two at their awaits, the result of each equals the  *)
(* result of the same request run alone with the same provider responses   *)
(* (it takes as many responses and ends alike), and the configuration is   *)
(* never written.                                                          *)
(***************************************************************************)
Replaying == peer.pc = "reference"

ReplayAgrees ==
    Replaying =>
        /\ pc = "done" => (heard = peer.heard /\ result = peer.result)
        /\ pc \in {"calling", "refining"} => Len(heard) < Len(peer.heard)

CountIn(p) == IF "count" \in DOMAIN p THEN p.count ELSE p.original.count

C19_RetryPrompt ==
    (req.kind \in {"quiz", "flashcards"} /\ Len(calls) = 2)
        => LET p == calls[2].prompt
           IN  /\ CountIn(p) = req.num
               /\ p.original = calls[1].prompt
               /\ "invalid" \in DOMAIN p
               /\ p.invalid = heard[1].text

\* The quiz retry prompt does contain all three.
C19_QuizRetryPrompt ==
    (req.kind = "quiz" /\ Len(calls) = 2)
        => LET p == calls[2].prompt
           IN  /\ p.count = req.num
               /\ p.original = calls[1].prompt
               /\ p.invalid = heard[1].text

(***************************************************************************)
(* C20  When quiz generation ends in Failed (both attempts returned text   *)
(* and neither passed), the error quotes the last raw provider output only *)
(* when app_env is "dev", and then at most 800 characters of it; in every  *)
(* other environment the error is one fixed message, whatever the provider *)
(* returned.                                                               *)
(***************************************************************************)
QuizFailed ==
    /\ req.kind = "quiz"
    /\ pc = "done"
    /\ result.status = "error"
    /\ Len(heard) = 2
    /\ AdapterReply("quiz", LastAdapter, heard[2]).status = "text"

C20_WitnessProd ==
    /\ QuizFailed
    /\ cfg.app_env = "prod"
    /\ heard[2].text = LongRaw
    /\ result.raw_excerpt = NoExcerpt

(***************************************************************************)
(* The refinement pass of the mind map.                                    *)
(***************************************************************************)
\* The mind-map call got past the shape checks of its first answer.
FirstTreeAccepted ==
    /\ req.kind = "mindmap"
    /\ pc \in {"refining", "done"}
    /\ Len(heard) >= 1
    /\ pc = "done" /\ Len(heard) = 1 => result.status = "ok"

\* The sanitized tree of the first answer, recomputed from the answer.
FirstTree ==
    _sanitize_tree(Get(ExtractJson("mindmap", heard[1].text).value, "root"),
                   req.max_depth, req.max_nodes)

\* The refinement requests the call has sent.
RefineRequests == {i \in 1..Len(calls) : calls[i].prompt.variant = "refine" /\ calls[i].sent}

\* C21: a mind-map call sends at most one refinement request, and sends it
\* exactly when the sanitized first tree is less deep than min(max_depth, 4)
\* and has fewer nodes than max_nodes; a call that fails sends none, and the
\* answer to the refinement request ends the call.
C21_OneRefinement ==
    /\ Cardinality(RefineRequests) <= 1
    /\ req.kind = "mindmap" => Len(calls) <= 2 /\ Len(heard) <= 2
    /\ req.kind = "mindmap" /\ Len(heard) = 2 => pc = "done"
    /\ req.kind = "mindmap" /\ ~FirstTreeAccepted => RefineRequests = {}
    /\ FirstTreeAccepted =>
        (RefineRequests # {}
            <=> /\ TreeDepth(FirstTree) < Min(req.max_depth, 4)
                /\ NodeCount(FirstTree) < req.max_nodes)

\* C21 happens: a shallow first tree below its node budget was refined once.
C21_Witness ==
    /\ FirstTreeAccepted
    /\ pc = "done"
    /\ Cardinality(RefineRequests) = 1
    /\ TreeDepth(FirstTree) = 2
    /\ Len(heard) = 2

\* A shallow first tree that had used up its node budget was not refined.
C21_WitnessFull ==
    /\ FirstTreeAccepted
    /\ pc = "done"
    /\ RefineRequests = {}
    /\ TreeDepth(FirstTree) < Min(req.max_depth, 4)
    /\ NodeCount(FirstTree) >= req.max_nodes

\* The answer to the refinement request is a failure: the provider failed,
\* the text is empty or no JSON, or the JSON has no root object.
RefinementFailed ==
    /\ RefinementAnswered
    /\ Len(heard) = 2
    /\ \/ heard[2].kind # "text"
       \/ heard[2].text.form \in {"empty", "invalid"}
       \/ heard[2].text.value.type # "dict"
       \/ ~IsDictNode(Get(heard[2].text.value, "root"))

\* C22: whatever fails in the refinement pass (a provider error, a timeout,
\* a text that does not parse, a payload without a root object), the call
\* still returns, and the root it returns is the sanitized tree of the first
\* answer, unchanged.
C22_RefinementFailureKeepsTree ==
    /\ req.kind = "mindmap" /\ pc = "done" /\ Len(heard) = 2 => result.status = "ok"
    /\ RefinementFailed => result.root = FirstTree

\* C22 happens: the refinement request timed out and the first tree came back.
C22_Witness ==
    /\ RefinementFailed
    /\ heard[2].kind = "timeout"
    /\ result.status = "ok"
    /\ result.root = FirstTree

\* The refinement answer parsed but carried no root object.
C22_WitnessNoRoot ==
    /\ RefinementFailed
    /\ heard[2].kind = "text"
    /\ heard[2].text = Raw("plain", JDict("title", JStr))
    /\ result.root = FirstTree

(***************************************************************************)
(* The retry loop of the Gemini client.                                    *)
(***************************************************************************)
GeminiDone == req.kind = "gemini" /\ pc = "done"

\* The i-th response of the call was an HTTP error status.
ErrorStatus(i) == heard[i].kind = "status" /\ heard[i].code # 200

\* C23: in generate_text an HTTP error status is followed by another request
\* exactly when the status is one of 429, 500, 502, 503, 504 and fewer than
\* max_retries retries have been made; so a call makes at most
\* max_retries + 1 requests and ends with a text or a GeminiClientError,
\* whatever the backend answers.
C23_BoundedRetries ==
    GeminiDone =>
        /\ Len(calls) <= req.max_retries + 1
        /\ IF result.status = "ok" THEN TRUE ELSE result.error = "GeminiClientError"
        /\ \A i \in 1..Len(heard) :
               ErrorStatus(i) =>
                   (i < Len(calls)
                       <=> heard[i].code \in {429, 500, 502, 503, 504} /\ i - 1 < req.max_retries)

(***************************************************************************)
(* The shape checks of the grading payload.                                *)
(***************************************************************************)
\* The grader's text parsed, and the parsed payload has not the shape
\* {"grades": [one entry per item]}.
GradingShapeViolated ==
    /\ req.kind = "grading"
    /\ pc = "done"
    /\ Len(heard) = 1
    /\ heard[1].kind = "text"
    /\ heard[1].text.form \in {"plain", "fenced"}
    /\ LET v == heard[1].text.value
       IN  \/ v.type # "dict"
           \/ Get(v, "grades").type # "list"
           \/ Len(Get(v, "grades").items) # Len(req.items)

\* C24: every shape violation of a parsed grading payload (a top-level value
\* that is no object, a missing or non-list grades member, a grades list
\* whose length is not the number of items) makes grade_theory_answers raise
\* TheoryGraderError, and no exception of another type leaves the call.
C24_ShapeViolationIsTyped ==
    /\ GradingShapeViolated => result.status = "error" /\ result.error = "TheoryGraderError"
    /\ req.kind = "grading" /\ pc = "done" /\ result.status = "error"
        => result.error = "TheoryGraderError"

(***************************************************************************)
(* The extractor and the prose around a payload.                           *)
(***************************************************************************)
\* A valid payload with prose before and after it, fenced or not, was given
\* to an extractor that falls back to the balanced scan.
ProseAround ==
    /\ req.kind = "extract"
    /\ pc = "done"
    /\ req.flaw = "none"
    /\ req.module \in {"quiz", "flashcards", "mindmap"}
    /\ req.wrapping \in {"prose", "fenced_prose", "quote_prose", "brace_prose",
                         "fenced_quote_prose", "prose_noise_after"}

\* C25: from a text of the form prose, one valid object payload, prose (with
\* or without a fenced block around the payload) the extractor returns that
\* payload, whatever the prose holds, an unpaired double quote or a
\* fragment in braces before the payload included.
C25_ProseTolerated ==
    ProseAround => (result.status = "ok" /\ result.value = req.payload)

\* The payload is recovered when the prose before it holds no double quote
\* and no brace, whatever follows it, and whenever the payload is inside a
\* fenced block (by the quiz extractor: when its repairs leave the payload
\* as it is).
C25_PlainProseTolerated ==
    (/\ ProseAround
     /\ req.wrapping \notin {"quote_prose", "brace_prose"}
     /\ req.module = "quiz" => RepairNeutral)
        => (result.status = "ok" /\ result.value = req.payload)

\* The balanced scan recovered an unfenced payload that is followed by an
\* opening brace and an unpaired double quote.
C25_Witness ==
    /\ ProseAround
    /\ req.module = "mindmap"
    /\ req.wrapping = "prose_noise_after"
    /\ ~JsonLoads(_strip_code_fences("mindmap", req.text)).ok
    /\ result.status = "ok"
    /\ result.value = req.payload

\* An unpaired double quote before an unfenced payload: the scan takes the
\* payload for the inside of a string and the extractor fails.
C25_WitnessQuote ==
    /\ ProseAround
    /\ req.wrapping = "quote_prose"
    /\ result.status = "error"

(***************************************************************************)
(* The canonical shape of a normalized node.                               *)
(***************************************************************************)
\* The paths (child indices from the root) of the nodes of t.
RECURSIVE PathsOf(_)
PathsOf(t) ==
    {<<>>} \cup UNION {{<<i>> \o p : p \in PathsOf(t.children[i])} :
                          i \in 1..Len(t.children)}

\* The backend gave the node an id that is present and not blank.
HasOwnId(raw) == raw.dict /\ raw.hasId /\ raw.id \notin {"", " "}

SynthIds == {SynthId(k) : k \in 1..(MaxTreeNodes + 1)}

\* The node out of the returned tree has the canonical shape for the node
\* raw of the backend it was made from.
Canonical(raw, out, isRoot) ==
    /\ out.label \notin {"", " "}
    /\ (~raw.dict \/ raw.label \in {"", " "}) => out.label = "Untitled"
    /\ ~raw.kidsList => out.children = <<>>
    /\ isRoot => out.id = "root"
    /\ ~isRoot =>
        /\ HasOwnId(raw) => out.id = raw.id
        /\ ~HasOwnId(raw) => out.id \in SynthIds

\* C26: after normalization every node has a non-empty label (the
\* placeholder for a blank or missing one), a list of children (empty when
\* the backend's children member is no list) and, below the root, the
\* backend's id only when that id is present and not blank: a node whose id
\* is missing, empty or whitespace only carries a synthesized id.
C26_CanonicalNodes ==
    (req.kind = "sanitize" /\ pc = "done")
        => \A p \in PathsOf(result.root) :
               Canonical(NodeAt(req.root, p), NodeAt(result.root, p), p = <<>>)

(***************************************************************************)
(* The source-text budgeter applied to its own output.                     *)
(***************************************************************************)
BudgetedTwice == req.kind = "budget" /\ pc = "done"

\* No whitespace next to whitespace and none in front.
Collapsed(s) ==
    /\ s # <<>> => s[1] # " "
    /\ \A i \in 1..(Len(s) - 1) : ~(s[i] = " " /\ s[i + 1] = " ")

EndsInSpace(s) == s # <<>> /\ s[Len(s)] = " "

\* C27: _prepare_source is idempotent: applied to its own output it returns
\* that output unchanged, for every text and every character limit.
C27_Idempotent == BudgetedTwice => result.source = work.source

\* The output of _prepare_source is whitespace-collapsed, has no leading
\* whitespace and is within the limit; applied to its own output the
\* function returns it unchanged unless the truncation left a space at the
\* end, and then it returns the output without that space.
C27_IdempotentUnlessCutAfterSpace ==
    BudgetedTwice =>
        /\ Collapsed(work.source)
        /\ Len(work.source) <= req.limit
        /\ ~EndsInSpace(work.source) => result.source = work.source
        /\ EndsInSpace(work.source)
            => /\ Len(SplitJoin(req.text, <<>>, FALSE)) > req.limit
               /\ result.source = SubSeq(work.source, 1, Len(work.source) - 1)
        /\ PrepareSource(result.source, req.limit) = result.source

\* A text longer than the limit was cut inside a word, and budgeting the
\* output again changed nothing.
C27_Witness ==
    /\ BudgetedTwice
    /\ req.text = <<"a", " ", "a", "a", "a">>
    /\ req.limit = 4
    /\ work.source = <<"a", " ", "a", "a">>
    /\ result.source = work.source

\* A text cut right after a separator: the second pass drops the space.
C27_WitnessCut ==
    /\ BudgetedTwice
    /\ req.limit = 2
    /\ work.source = <<"a", " ">>
    /\ result.source = <<"a">>

(***************************************************************************)
(* The quiz extractor on a payload that is valid as it stands.             *)
(***************************************************************************)
\* The quiz extractor was given a text whose fence-stripped form is a valid
\* JSON document.
ValidAsGiven ==
    /\ req.kind = "extract"
    /\ req.module = "quiz"
    /\ pc = "done"
    /\ JsonLoads(_strip_code_fences("quiz", req.text)).ok

\* C28: when the fence-stripped provider text is a valid JSON document, the
\* quiz extractor returns exactly the value that parsing that text yields:
\* the repairs change no string value and cause no parse error.
C28_ValidPayloadUntouched ==
    ValidAsGiven =>
        /\ result.status = "ok"
        /\ result.value = JsonLoads(_strip_code_fences("quiz", req.text)).value

\* A valid payload without curly quotation marks or a comma before a closer
\* inside its strings is returned as parsed.
C28_Witness ==
    /\ ValidAsGiven
    /\ req.wrapping = "tagged"
    /\ req.payload = <<"{", DQ, "a", DQ, ":", "[", "1", ",", DQ, "a", DQ, "]", "}">>
    /\ result.status = "ok"
    /\ result.value = req.payload

\* A string value in curly quotation marks: the repair turns them into
\* string delimiters and the valid payload is rejected.
C28_WitnessRejected ==
    /\ ValidAsGiven
    /\ req.payload = <<"{", DQ, "a", DQ, ":", DQ, LDQ, "a", RDQ, DQ, "}">>
    /\ result.status = "error"

\* A string value holding a comma before a bracket: the repair removes the
\* comma and the space, and the value returned is another string.
C28_WitnessChanged ==
    /\ ValidAsGiven
    /\ req.payload = <<"{", DQ, "a", DQ, ":", DQ, "a", ",", " ", "]", DQ, "}">>
    /\ result.status = "ok"
    /\ result.value = <<"{", DQ, "a", DQ, ":", DQ, "a", "]", DQ, "}">>

(***************************************************************************)
(* Provider selection and the adapters of each operation.                  *)
(***************************************************************************)
NotImplementedMessages ==
    {"OpenAI flashcards not implemented",
     "OpenAI mindmap provider not implemented",
     "Theory grading via OpenAI is not implemented"}

\* _configured_provider() chose the provider of the call.
SelectedByConfiguration ==
    /\ pc = "done"
    /\ consulted
    /\ provider \notin {None, Undeclared}

\* C29: whenever the selection by configuration returns a provider for an
\* operation, the operation has an adapter for that provider: no request
\* fails with a "not implemented" error.
C29_SelectedProviderHasAdapter ==
    SelectedByConfiguration =>
        ~(result.status = "error" /\ result.msg \in NotImplementedMessages)

(***************************************************************************)
(* delete_file against the background task of the same file.               *)
(***************************************************************************)
BothFinished == req.kind = "files" /\ pc = "done" /\ peer.pc = "done"

\* Once both have finished, the deleted file has no extracted pages left.
NoPagesOfDeletedFile == (BothFinished /\ db.deleted) => db.pages = 0

\* C30: under every interleaving of delete_file with _process_uploaded_file
\* for the same file, once both have finished the deleted file has no
\* extracted_pages documents left, and the background task never changes
\* the processing_status of a file that is already marked deleted.
C30_DeleteIsFinal ==
    /\ []NoPagesOfDeletedFile
    /\ [][db.deleted => db'.status = db.status]_vars

\* The task inserted its pages after delete_file had deleted them.
C30_PagesLeft == BothFinished /\ db.deleted /\ db.pages > 0

\* The file was marked deleted while the task was about to report its end.
C30_StatusAfterDelete == req.kind = "files" /\ db.deleted /\ pc \in {"completing", "failing"}

====
